---- MODULE Spec2Model ----
(***************************************************************************)
(* Model of the computational graph engine of hyperd                       *)
(* (src/ext/hyperd/hyperd.js): ComputationalNode, ComputationalGraph with  *)
(* addNode, registerSystem, buildExecutionOrder, getExecutionPlan and the  *)
(* async execute() loop.                                                   *)
(*                                                                         *)
(* One ComputationalGraph is driven by one caller that awaits every call   *)
(* (as Hyperd.executeWorkflow does), so a new call starts only when the    *)
(* previous one has returned or thrown (pc = "idle"), and drops the graph   *)
(* after its last execute().  execute() is split at its statements so that *)
(* every status a node takes is a state.                                   *)
(***************************************************************************)
EXTENDS Integers, Sequences, FiniteSets, TLC

\* ---------------------------------------------------------------- bounds
\* number of addNode calls made on a graph that is executed
MaxAdds == 2
\* number of addNode calls made on a graph that is only ordered
MaxOrderAdds == 3
\* length of the inputs list passed to addNode
MaxInputs == 2
\* number of execute() calls made on one graph
MaxRuns == 1

\* ------------------------------------------------------- inputs of calls
NodeIds == {"A", "B", "C"}
SystemNames == {"scm", "crm"}

\* Strings that are split are sequences of characters.
\* The operation string "r:p" (method r, one argument p).
OperationStrings == { <<"r", ":", "p">> }

\* A service instance is the set of its property names that are functions.
Instances == { {<<"r">>}, {} }

\* The domain each node id is bound to by the callers of addNode.
SystemOf(id) == IF id = "B" THEN "crm" ELSE "scm"

RECURSIVE SeqsUpTo(_, _)
SeqsUpTo(S, n) ==
  IF n = 0 THEN { <<>> }
  ELSE LET shorter == SeqsUpTo(S, n - 1)
       IN shorter \cup { Append(s, x) : s \in shorter, x \in S }

Range(s) == { s[i] : i \in 1..Len(s) }

\* inputs lists: ids in any order, possibly unknown to the graph, no id twice
InputLists == { s \in SeqsUpTo(NodeIds, MaxInputs) : Cardinality(Range(s)) = Len(s) }

\* the inputs lists of the graphs that are executed: no input, one input, and
\* the two inputs of the documented example addNode('n3', ..., ['n1', 'n2'])
ExecInputLists == { s \in InputLists : Len(s) <= 1 \/ s = <<"A", "B">> }

\* ------------------------------------------------------------- JS values
Null == <<"null">>
Undefined == <<"undefined">>
\* the opaque value a domain service returns for the call made for node id
ServiceValue(id) == <<"val", id>>
\* the object { error: message }
ErrorObject(msg) == <<"errobj", msg>>
NoError == <<"none">>

VARIABLES
  nodeKeys,        \* key order of the Map #nodes
  nodes,           \* #nodes: id -> ComputationalNode
  executionOrder,  \* #executionOrder
  systems,         \* #systems: name -> instance
  pc,              \* position of the caller / of execute()
  pos,             \* index of the for..of loop of execute() in its array
  results,         \* the local Map results of execute()
  caught,          \* the error held by the catch clause of execute()
  dispatched,      \* calls system[method](...) made by the current execute()
  outcome,         \* what the last call returned or threw to the caller
  adds,            \* addNode calls the caller may still make
  runs             \* execute() calls the caller may still make

\* the hyper-graph index (HyperGraphNeuralNetwork) and the Hyperd that owns it
VARIABLES
  hgNodeKeys,      \* key order of the Map #nodes of the index
  hgNodes,         \* #nodes of the index: node id -> {system, type, embedding}
  hgEdgeKeys,      \* key order of the Map #hyperEdges
  hyperEdges,      \* #hyperEdges: edge id -> HyperEdge
  hyperdKeys,      \* key order of the object #systems of Hyperd
  hyperdSystems,   \* #systems of Hyperd: name -> instance
  initialized,     \* #initialized of Hyperd
  edgeAdds,        \* addHyperEdge calls the caller has left
  reply            \* what the last call on the index or on Hyperd returned or threw

\* the attention of the index, the workflows of the Hyperd, a path search
VARIABLES
  headScores,      \* per attention head, the score its random #attentionWeights
                   \* give each key embedding against the query
  invocations,     \* the executeWorkflow calls: each with its own graph
  search           \* the frame of a findCrossDomainPaths call: queue, visited, paths

callVars == <<headScores, invocations, search>>

indexVars == <<hgNodeKeys, hgNodes, hgEdgeKeys, hyperEdges, hyperdKeys,
               hyperdSystems, initialized, edgeAdds, reply>>

graphVars == <<nodeKeys, nodes, executionOrder, systems, pc, pos, results, caught,
               dispatched, outcome, adds, runs>>

vars == <<nodeKeys, nodes, executionOrder, systems, pc, pos, results, caught,
          dispatched, outcome, adds, runs, hgNodeKeys, hgNodes, hgEdgeKeys,
          hyperEdges, hyperdKeys, hyperdSystems, initialized, edgeAdds, reply,
          headScores, invocations, search>>

execVars == <<pos, results, caught, dispatched>>

\* ------------------------------------------------------ ComputationalNode
\* constructor
NewNode(system, operation, inputs) ==
  [system |-> system, operation |-> operation, inputs |-> inputs,
   outputs |-> <<>>, status |-> "pending", result |-> Null]

\* setStatus
SetStatus(node, status) == [node EXCEPT !.status = status]

\* setResult
SetResult(node, result) == [node EXCEPT !.result = result, !.status = "completed"]

\* new ComputationalGraph(), to be filled by at most a addNode calls and
\* executed at most r times
NewGraph(a, r) ==
  /\ nodeKeys = <<>>
  /\ nodes = <<>>
  /\ executionOrder = <<>>
  /\ systems = <<>>
  /\ pc = "idle"
  /\ pos = 0
  /\ results = <<>>
  /\ caught = NoError
  /\ dispatched = <<>>
  /\ outcome = [call |-> "new", error |-> NoError, value |-> <<>>]
  /\ adds = a
  /\ runs = r

\* new Hyperd(): an empty index, no system, not initialized
NewHyperd(e) ==
  /\ hgNodeKeys = <<>>
  /\ hgNodes = <<>>
  /\ hgEdgeKeys = <<>>
  /\ hyperEdges = <<>>
  /\ hyperdKeys = <<>>
  /\ hyperdSystems = <<>>
  /\ initialized = FALSE
  /\ edgeAdds = e
  /\ reply = [call |-> "new", args |-> <<>>, error |-> NoError, value |-> <<>>]

\* new HyperGraphAttention(dimension, 4)
NumHeads == 4

\* the key embeddings of a computeAttention call
AttentionKeys == {"k1", "k2"}

\* the scores of a head, in units of ln 2: 0..MaxScore
MaxScore == 1

\* every outcome of #initializeWeights(): the weights are random, and so are
\* the scores they give the keys
HeadScoreTables == [1..NumHeads -> [AttentionKeys -> 0..MaxScore]]

\* one of them
FlatScores == [head \in 1..NumHeads |-> [k \in AttentionKeys |-> 0]]

\* the executeWorkflow calls that may run at a time
InvocationIds == {1, 2}

\* no executeWorkflow call was made
NoInvocation ==
  [pc |-> "none", workflow |-> "", others |-> <<>>, graph |-> <<>>, order |-> <<>>,
   pos |-> 0, results |-> <<>>, dispatched |-> <<>>,
   outcome |-> [error |-> NoError, value |-> <<>>]]

\* no findCrossDomainPaths call is running
NoSearch ==
  [pc |-> "none", args |-> <<>>, queue |-> <<>>, visited |-> {}, paths |-> <<>>,
   queued |-> <<>>]

\* no call is running, and the attention has the weights FlatScores stands for
NoCalls ==
  /\ headScores = FlatScores
  /\ invocations = [i \in InvocationIds |-> NoInvocation]
  /\ search = NoSearch

Init == NewGraph(MaxAdds, MaxRuns) /\ NewHyperd(0) /\ NoCalls

\* a graph that is built and ordered, never executed
InitOrder == NewGraph(MaxOrderAdds, 0) /\ NewHyperd(0) /\ NoCalls

\* ------------------------------------------------------ ComputationalGraph
\* The caller may make a call: no call is in progress, and the graph has not
\* been dropped (a graph is dropped when its last execute() has ended).
CallerReady == pc = "idle" /\ ~(runs = 0 /\ outcome.call = "execute")

\* Map.set on a function: the value is replaced, a new key is added
MapSet(m, k, v) == [x \in DOMAIN m \cup {k} |-> IF x = k THEN v ELSE m[x]]

\* registerSystem(name, instance)
RegisterSystem(name, instance) ==
  /\ CallerReady
  /\ systems' = MapSet(systems, name, instance)
  /\ outcome' = [call |-> "registerSystem", error |-> NoError, value |-> <<>>]
  /\ UNCHANGED indexVars
  /\ UNCHANGED callVars
  /\ UNCHANGED <<nodeKeys, nodes, executionOrder, pc, execVars, adds, runs>>

\* the ids pushed by the loop "for (const inputId of inputs) ... addOutput(id)"
\* onto the outputs of node k
RECURSIVE OutputsPushed(_, _, _)
OutputsPushed(inputs, k, id) ==
  IF inputs = <<>> THEN <<>>
  ELSE (IF Head(inputs) = k THEN <<id>> ELSE <<>>) \o OutputsPushed(Tail(inputs), k, id)

\* addNode(id, system, operation, inputs)
AddNode(id, system, operation, inputs) ==
  /\ CallerReady
  /\ adds > 0
  /\ adds' = adds - 1
  /\ LET set == MapSet(nodes, id, NewNode(system, operation, inputs))
     IN nodes' = [k \in DOMAIN set |->
                    [set[k] EXCEPT !.outputs = @ \o OutputsPushed(inputs, k, id)]]
  /\ nodeKeys' = IF id \in DOMAIN nodes THEN nodeKeys ELSE Append(nodeKeys, id)
  /\ outcome' = [call |-> "addNode", error |-> NoError, value |-> <<>>]
  /\ UNCHANGED indexVars
  /\ UNCHANGED callVars
  /\ UNCHANGED <<executionOrder, systems, pc, execVars, runs>>

MapGet(m, k) == IF k \in DOMAIN m THEN m[k] ELSE Undefined

\* --- buildExecutionOrder: depth-first traversal with tempMark and visited
CycleError(nodeId) == <<"Cycle detected in computational graph at node", nodeId>>

DfsStart == [visited |-> {}, tempMark |-> {}, order |-> <<>>, error |-> NoError]

RECURSIVE Visit(_, _, _)
RECURSIVE VisitInputs(_, _, _)

\* the statements after the loop over the inputs: leave the stack, mark, push
VisitDone(st, nodeId) ==
  [st EXCEPT !.tempMark = @ \ {nodeId},
             !.visited = @ \cup {nodeId},
             !.order = Append(@, nodeId)]

\* visit with "order.push(nodeId)" moved before the loop over the inputs
VisitPushFirst(g, st, nodeId) ==
  IF st.error # NoError THEN st
  ELSE IF nodeId \in st.tempMark THEN [st EXCEPT !.error = CycleError(nodeId)]
  ELSE IF nodeId \notin st.visited
    THEN LET marked == [st EXCEPT !.tempMark = @ \cup {nodeId},
                                  !.order = Append(@, nodeId)]
             after == IF nodeId \in DOMAIN g
                        THEN VisitInputs(g, marked, g[nodeId].inputs)
                        ELSE marked
         IN IF after.error # NoError THEN after
            ELSE [after EXCEPT !.tempMark = @ \ {nodeId}, !.visited = @ \cup {nodeId}]
  ELSE st

\* const visit = (nodeId) => { ... } over the graph g; a throw ends the traversal
Visit(g, st, nodeId) ==
  IF st.error # NoError THEN st
  ELSE IF nodeId \in st.tempMark THEN [st EXCEPT !.error = CycleError(nodeId)]
  ELSE IF nodeId \notin st.visited
    THEN LET marked == [st EXCEPT !.tempMark = @ \cup {nodeId}]
             after == IF nodeId \in DOMAIN g
                        THEN VisitInputs(g, marked, g[nodeId].inputs)
                        ELSE marked
         IN IF after.error # NoError THEN after ELSE VisitDone(after, nodeId)
  ELSE st

\* for (const inputId of node.inputs) visit(inputId)
VisitInputs(g, st, inputs) ==
  IF inputs = <<>> \/ st.error # NoError THEN st
  ELSE VisitInputs(g, Visit(g, st, Head(inputs)), Tail(inputs))

\* for (const nodeId of this.#nodes.keys()) if (!visited.has(nodeId)) visit(nodeId)
RECURSIVE VisitKeys(_, _, _)
VisitKeys(g, st, keys) ==
  IF keys = <<>> \/ st.error # NoError THEN st
  ELSE VisitKeys(g,
                 IF Head(keys) \notin st.visited THEN Visit(g, st, Head(keys)) ELSE st,
                 Tail(keys))

\* the traversal of buildExecutionOrder: [order, error]
BuildOrder(keys, g) == VisitKeys(g, DfsStart, keys)

\* buildExecutionOrder() called by the caller
BuildExecutionOrder ==
  /\ CallerReady
  /\ LET r == BuildOrder(nodeKeys, nodes)
     IN IF r.error # NoError
          THEN /\ executionOrder' = executionOrder
               /\ outcome' = [call |-> "buildExecutionOrder", error |-> r.error,
                              value |-> <<>>]
          ELSE /\ executionOrder' = r.order
               /\ outcome' = [call |-> "buildExecutionOrder", error |-> NoError,
                              value |-> r.order]
  /\ UNCHANGED indexVars
  /\ UNCHANGED callVars
  /\ UNCHANGED <<nodeKeys, nodes, systems, pc, execVars, adds, runs>>

\* one entry of the list getExecutionPlan returns
PlanEntry(id) ==
  [id |-> id, system |-> nodes[id].system, operation |-> nodes[id].operation,
   inputs |-> nodes[id].inputs, outputs |-> nodes[id].outputs,
   status |-> nodes[id].status]

TypeError == <<"TypeError: Cannot read properties of undefined">>

\* getExecutionPlan()
GetExecutionPlan ==
  /\ CallerReady
  /\ LET r == BuildOrder(nodeKeys, nodes)
         build == Len(executionOrder) = 0
         order == IF build /\ r.error = NoError THEN r.order ELSE executionOrder
     IN /\ executionOrder' = order
        /\ outcome' =
             IF build /\ r.error # NoError
               THEN [call |-> "getExecutionPlan", error |-> r.error, value |-> <<>>]
             ELSE IF \E i \in 1..Len(order) : order[i] \notin DOMAIN nodes
               THEN [call |-> "getExecutionPlan", error |-> TypeError, value |-> <<>>]
             ELSE [call |-> "getExecutionPlan", error |-> NoError,
                   value |-> [i \in 1..Len(order) |-> PlanEntry(order[i])]]
  /\ UNCHANGED indexVars
  /\ UNCHANGED callVars
  /\ UNCHANGED <<nodeKeys, nodes, systems, pc, execVars, adds, runs>>

\* --- execute()
\* "if (this.#executionOrder.length === 0) this.buildExecutionOrder();
\*  const results = new Map();"
ExecuteStart ==
  /\ pc = "idle"
  /\ runs > 0
  /\ runs' = runs - 1
  /\ dispatched' = <<>>
  /\ results' = <<>>
  /\ caught' = NoError
  /\ LET r == BuildOrder(nodeKeys, nodes)
         build == Len(executionOrder) = 0
     IN IF build /\ r.error # NoError
          THEN /\ executionOrder' = executionOrder
               /\ pos' = 0
               /\ pc' = "idle"
               /\ outcome' = [call |-> "execute", error |-> r.error, value |-> <<>>]
          ELSE /\ executionOrder' = IF build THEN r.order ELSE executionOrder
               /\ pos' = 1
               /\ pc' = "loop"
               /\ outcome' = [call |-> "execute", error |-> NoError, value |-> <<>>]
  /\ UNCHANGED indexVars
  /\ UNCHANGED callVars
  /\ UNCHANGED <<nodeKeys, nodes, systems, adds>>

\* the loop is exhausted: "return results"
ExecuteReturn ==
  /\ pc = "loop"
  /\ pos > Len(executionOrder)
  /\ pc' = "idle"
  /\ outcome' = [call |-> "execute", error |-> NoError, value |-> results]
  /\ UNCHANGED indexVars
  /\ UNCHANGED callVars
  /\ UNCHANGED <<nodeKeys, nodes, executionOrder, systems, execVars, adds, runs>>

\* "if (!node) continue;"
ExecuteSkip ==
  /\ pc = "loop"
  /\ pos <= Len(executionOrder)
  /\ executionOrder[pos] \notin DOMAIN nodes
  /\ pos' = pos + 1
  /\ UNCHANGED indexVars
  /\ UNCHANGED callVars
  /\ UNCHANGED <<nodeKeys, nodes, executionOrder, systems, pc, results, caught,
                 dispatched, outcome, adds, runs>>

\* "node.setStatus('running');"
ExecuteSetRunning ==
  /\ pc = "loop"
  /\ pos <= Len(executionOrder)
  /\ executionOrder[pos] \in DOMAIN nodes
  /\ nodes' = [nodes EXCEPT ![executionOrder[pos]] = SetStatus(@, "running")]
  /\ pc' = "running"
  /\ UNCHANGED indexVars
  /\ UNCHANGED callVars
  /\ UNCHANGED <<nodeKeys, executionOrder, systems, execVars, outcome, adds, runs>>

\* String.prototype.split(':') on a sequence of characters
RECURSIVE SplitColon(_, _)
SplitColon(s, segment) ==
  IF s = <<>> THEN <<segment>>
  ELSE IF Head(s) = ":" THEN <<segment>> \o SplitColon(Tail(s), <<>>)
  ELSE SplitColon(Tail(s), Append(segment, Head(s)))

\* "const [method, ...args] = operation.split(':');"
ParseOperation(operation) ==
  LET parts == SplitColon(operation, <<>>)
  IN [method |-> Head(parts), args |-> Tail(parts)]

\* "node.inputs.map(inputId => results.get(inputId))"
InputResults(node) == [i \in 1..Len(node.inputs) |-> MapGet(results, node.inputs[i])]

SystemNotRegistered(system) == <<"System not registered", system>>
MethodNotFound(method) == <<"Method not found", method>>
OperationFailure == <<"rejected by the domain service">>

\* the try block with the typeof test of #executeOperation left out
ExecuteDispatchUntested ==
  /\ pc = "running"
  /\ LET id == executionOrder[pos]
         node == nodes[id]
         op == ParseOperation(node.operation)
     IN IF node.system \notin DOMAIN systems
          THEN /\ caught' = SystemNotRegistered(node.system)
               /\ pc' = "catch"
               /\ dispatched' = dispatched
          ELSE /\ caught' = caught
               /\ pc' = "await"
               /\ dispatched' = Append(dispatched,
                    [node |-> id, system |-> node.system, method |-> op.method,
                     args |-> op.args \o InputResults(node)])
  /\ UNCHANGED indexVars
  /\ UNCHANGED callVars
  /\ UNCHANGED <<nodeKeys, nodes, executionOrder, systems, pos, results, outcome,
                 adds, runs>>

\* the body of the try block up to the call system[method](...args, ...inputs)
ExecuteDispatch ==
  /\ pc = "running"
  /\ LET id == executionOrder[pos]
         node == nodes[id]
         op == ParseOperation(node.operation)
     IN IF node.system \notin DOMAIN systems
          THEN /\ caught' = SystemNotRegistered(node.system)
               /\ pc' = "catch"
               /\ dispatched' = dispatched
          ELSE IF op.method \notin systems[node.system]
            THEN /\ caught' = MethodNotFound(op.method)
                 /\ pc' = "catch"
                 /\ dispatched' = dispatched
            ELSE /\ caught' = caught
                 /\ pc' = "await"
                 /\ dispatched' = Append(dispatched,
                      [node |-> id, system |-> node.system, method |-> op.method,
                       args |-> op.args \o InputResults(node)])
  /\ UNCHANGED indexVars
  /\ UNCHANGED callVars
  /\ UNCHANGED <<nodeKeys, nodes, executionOrder, systems, pos, results, outcome,
                 adds, runs>>

\* the awaited call resolves: "node.setResult(result); results.set(nodeId, result);"
ServiceResolve ==
  /\ pc = "await"
  /\ LET id == executionOrder[pos]
     IN /\ nodes' = [nodes EXCEPT ![id] = SetResult(@, ServiceValue(id))]
        /\ results' = MapSet(results, id, ServiceValue(id))
  /\ pos' = pos + 1
  /\ pc' = "loop"
  /\ UNCHANGED indexVars
  /\ UNCHANGED callVars
  /\ UNCHANGED <<nodeKeys, executionOrder, systems, caught, dispatched, outcome,
                 adds, runs>>

\* the awaited call throws or rejects
ServiceReject ==
  /\ pc = "await"
  /\ caught' = OperationFailure
  /\ pc' = "catch"
  /\ UNCHANGED indexVars
  /\ UNCHANGED callVars
  /\ UNCHANGED <<nodeKeys, nodes, executionOrder, systems, pos, results, dispatched,
                 outcome, adds, runs>>

\* catch: "node.setStatus('failed');"
ExecuteCatchSetStatus ==
  /\ pc = "catch"
  /\ nodes' = [nodes EXCEPT ![executionOrder[pos]] = SetStatus(@, "failed")]
  /\ pc' = "catch2"
  /\ UNCHANGED indexVars
  /\ UNCHANGED callVars
  /\ UNCHANGED <<nodeKeys, executionOrder, systems, execVars, outcome, adds, runs>>

\* catch: "node.setResult({ error: error.message });"
ExecuteCatchSetResult ==
  /\ pc = "catch2"
  /\ nodes' = [nodes EXCEPT ![executionOrder[pos]] = SetResult(@, ErrorObject(caught))]
  /\ pc' = "throw"
  /\ UNCHANGED indexVars
  /\ UNCHANGED callVars
  /\ UNCHANGED <<nodeKeys, executionOrder, systems, execVars, outcome, adds, runs>>

\* a catch clause that records the failure and goes on with the next node
ExecuteSwallow ==
  /\ pc = "throw"
  /\ pc' = "loop"
  /\ pos' = pos + 1
  /\ UNCHANGED indexVars
  /\ UNCHANGED callVars
  /\ UNCHANGED <<nodeKeys, nodes, executionOrder, systems, results, caught,
                 dispatched, outcome, adds, runs>>

\* catch: "throw error;" leaves execute(); the caller receives the error alone
ExecuteThrow ==
  /\ pc = "throw"
  /\ pc' = "idle"
  /\ outcome' = [call |-> "execute", error |-> caught, value |-> <<>>]
  /\ UNCHANGED indexVars
  /\ UNCHANGED callVars
  /\ UNCHANGED <<nodeKeys, nodes, executionOrder, systems, execVars, adds, runs>>

Next ==
  \/ \E name \in SystemNames, instance \in Instances : RegisterSystem(name, instance)
  \/ \E id \in NodeIds, operation \in OperationStrings, inputs \in ExecInputLists :
        AddNode(id, SystemOf(id), operation, inputs)
  \/ BuildExecutionOrder
  \/ GetExecutionPlan
  \/ ExecuteStart
  \/ ExecuteReturn
  \/ ExecuteSkip
  \/ ExecuteSetRunning
  \/ ExecuteDispatch
  \/ ServiceResolve
  \/ ServiceReject
  \/ ExecuteCatchSetStatus
  \/ ExecuteCatchSetResult
  \/ ExecuteThrow

Spec == Init /\ [][Next]_vars

\* graph construction and ordering alone, over every inputs list
NextOrder ==
  \/ \E id \in NodeIds, operation \in OperationStrings, inputs \in InputLists :
        AddNode(id, SystemOf(id), operation, inputs)
  \/ BuildExecutionOrder

SpecOrder == InitOrder /\ [][NextOrder]_vars

\* ------------------------------------------------------------ properties
\* the ids a node names as inputs
InputsOf(g, n) == IF n \in DOMAIN g THEN Range(g[n].inputs) ELSE {}

\* the ids reached from the set S over at most k more input edges
RECURSIVE ReachedFrom(_, _, _)
ReachedFrom(g, S, k) ==
  IF k = 0 THEN S
  ELSE ReachedFrom(g, S \cup UNION { InputsOf(g, m) : m \in S }, k - 1)

\* the ids reachable from n over one or more input edges
Reach(g, n) == ReachedFrom(g, InputsOf(g, n), Cardinality(NodeIds))

\* some node is reachable from itself
Cyclic(g) == \E n \in DOMAIN g : n \in Reach(g, n)

\* some node names an input id that is not in the graph
Dangling(g) == \E n \in DOMAIN g : \E i \in InputsOf(g, n) : i \notin DOMAIN g

IndexOf(s, x) == CHOOSE i \in 1..Len(s) : s[i] = x

IsCycleError(e) == e[1] = CycleError("A")[1]

\* the last call was call, and it has returned or thrown
Returned(call) == pc = "idle" /\ outcome.call = call

\* execute() has failed at a node: in its catch clause, or thrown from it
FailedAtNode ==
  \/ pc \in {"catch", "catch2", "throw"}
  \/ Returned("execute") /\ outcome.error # NoError /\ ~IsCycleError(outcome.error)

\* the node ids of the calls made by the current execute()
DispatchedIds == { dispatched[i].node : i \in 1..Len(dispatched) }

\* C1: for an acyclic graph, the list buildExecutionOrder() returns holds every
\* node, and every input id of a node at an earlier position than the node.
C1_BuildOrderSound ==
  (Returned("buildExecutionOrder") /\ ~Cyclic(nodes)) =>
    /\ outcome.error = NoError
    /\ \A n \in DOMAIN nodes :
         /\ n \in Range(outcome.value)
         /\ \A i \in InputsOf(nodes, n) :
              /\ i \in Range(outcome.value)
              /\ IndexOf(outcome.value, i) < IndexOf(outcome.value, n)

\* an order was returned for three nodes, one of them with two inputs that were
\* both added after it
C1_Witness ==
  /\ Returned("buildExecutionOrder")
  /\ ~Cyclic(nodes)
  /\ Len(nodeKeys) = 3
  /\ Len(nodes[nodeKeys[1]].inputs) = 2
  /\ Len(outcome.value) = 3

\* C2: whenever the graph has a cycle, buildExecutionOrder() and execute() fail
\* with the cycle error, no operation is dispatched and every node stays pending.
C2_CycleNeverExecutes ==
  Cyclic(nodes) =>
    /\ Returned("buildExecutionOrder") => IsCycleError(outcome.error)
    /\ outcome.call = "execute" =>
         /\ pc = "idle"
         /\ IsCycleError(outcome.error)
         /\ dispatched = <<>>
         /\ \A n \in DOMAIN nodes : nodes[n].status = "pending"

\* the earliest-inserted node not yet emitted all of whose inputs are emitted
RECURSIVE InsertionTopoOrder(_, _, _)
InsertionTopoOrder(keys, g, emitted) ==
  LET ready == { i \in 1..Len(keys) :
                   /\ keys[i] \notin Range(emitted)
                   /\ InputsOf(g, keys[i]) \subseteq Range(emitted) }
  IN IF ready = {} THEN emitted
     ELSE LET first == CHOOSE i \in ready : \A j \in ready : i <= j
          IN InsertionTopoOrder(keys, g, Append(emitted, keys[first]))

\* C3: for an acyclic graph the execution order is the topological order with
\* ties broken by insertion order.
C3_InsertionOrderTieBreak ==
  (Returned("buildExecutionOrder") /\ ~Cyclic(nodes) /\ ~Dangling(nodes)) =>
    outcome.value = InsertionTopoOrder(nodeKeys, nodes, <<>>)

\* C4: a node that is running has every input completed with a recorded result,
\* and no call is made with a missing input result.
C4_InputsCompletedWhenRunning ==
  /\ \A n \in DOMAIN nodes :
       nodes[n].status = "running" =>
         \A i \in InputsOf(nodes, n) :
           /\ i \in DOMAIN nodes
           /\ nodes[i].status = "completed"
           /\ i \in DOMAIN results
           /\ results[i] = nodes[i].result
  /\ \A k \in 1..Len(dispatched) :
       LET node == nodes[dispatched[k].node]
           op == ParseOperation(node.operation)
       IN /\ \A j \in 1..Len(node.inputs) :
               /\ node.inputs[j] \in DOMAIN nodes
               /\ dispatched[k].args[Len(op.args) + j] = nodes[node.inputs[j]].result
          /\ Undefined \notin Range(dispatched[k].args)

\* the nodes after the failed one in the array execute() iterates
Following == { executionOrder[j] : j \in (pos + 1)..Len(executionOrder) } \cap DOMAIN nodes

\* after a failure: the failed node is the last one started
C5_FailFastState ==
  FailedAtNode =>
    /\ DispatchedIds \cap Following = {}
    /\ \A n \in Following :
         /\ nodes[n].status # "running"
         /\ runs = MaxRuns - 1 => nodes[n].status = "pending"

\* a step taken after a failure starts nothing: it stays in the catch clause or
\* leaves execute(), dispatches nothing and changes no other node
C5_FailFastStep ==
  pc \in {"catch", "catch2", "throw"} =>
    /\ pc' \in {"catch2", "throw", "idle"}
    /\ dispatched' = dispatched
    /\ pos' = pos
    /\ \A n \in DOMAIN nodes : n # executionOrder[pos] => nodes'[n] = nodes[n]

\* C5: once a dispatch has failed during execute(), no further node is started:
\* the nodes after the failed one keep their status (pending, on a graph not
\* executed before) and none of their operations is invoked.
C5_FailFast == [](C5_FailFastState) /\ [][C5_FailFastStep]_vars

\* execute() has thrown because the call made for a node was rejected, and a
\* node follows the failed one
C5_Witness ==
  /\ Returned("execute")
  /\ outcome.error = OperationFailure
  /\ executionOrder[pos] \in DispatchedIds
  /\ Following # {}

\* C6: when execute() has thrown at a node, that node's status is failed.
C6_FailedNodeIsFailed ==
  (Returned("execute") /\ FailedAtNode) => nodes[executionOrder[pos]].status = "failed"

StatusTransitions ==
  { <<"pending", "running">>, <<"running", "completed">>, <<"running", "failed">> }

\* C7: a node's status changes only along pending -> running -> completed and
\* pending -> running -> failed (a step of addNode creates a new node).
C7_StatusMachine ==
  [][adds' = adds =>
       \A n \in DOMAIN nodes :
         nodes'[n].status # nodes[n].status =>
           <<nodes[n].status, nodes'[n].status>> \in StatusTransitions]_vars

\* C8: the failure execute() reports carries the partial result map: the results
\* of exactly the nodes that completed before the failure.
C8_ErrorCarriesPartialResults ==
  (Returned("execute") /\ FailedAtNode) => outcome.value = results

\* C9: a graph with a dangling input id is rejected by buildExecutionOrder() at
\* the latest, and execute() dispatches none of its operations.
C9_DanglingInputRejected ==
  Dangling(nodes) =>
    /\ Returned("buildExecutionOrder") => outcome.error # NoError
    /\ outcome.call = "execute" => dispatched = <<>>

IsDomainError(e) == e[1] \in {SystemNotRegistered("scm")[1], MethodNotFound(<<>>)[1]}

\* the nodes before position k of the array execute() iterates
Preceding(k) == { executionOrder[j] : j \in 1..(k - 1) } \cap DOMAIN nodes

\* C10: an unregistered domain or an unknown operation is accepted by addNode,
\* buildExecutionOrder() and getExecutionPlan(); execute() fails with the
\* unknown-domain or unknown-operation error exactly when it reaches such a node,
\* after having run the nodes before it, and invokes nothing for that node.
C10_DomainErrorsAtExecution ==
  /\ IsDomainError(outcome.error) => outcome.call = "execute"
  /\ outcome.call = "execute" =>
       \A k \in 1..Len(dispatched) :
         /\ dispatched[k].system \in DOMAIN systems
         /\ dispatched[k].method \in systems[dispatched[k].system]
  /\ pc = "await" => executionOrder[pos] \in DispatchedIds
  /\ (pc \in {"catch", "catch2", "throw"} /\ caught # OperationFailure) =>
       LET node == nodes[executionOrder[pos]]
       IN /\ executionOrder[pos] \notin DispatchedIds
          /\ Preceding(pos) = DispatchedIds
          /\ \A n \in Preceding(pos) : nodes[n].status = "completed"
          /\ IF node.system \notin DOMAIN systems
               THEN caught = SystemNotRegistered(node.system)
               ELSE /\ caught = MethodNotFound(ParseOperation(node.operation).method)
                    /\ ParseOperation(node.operation).method \notin systems[node.system]
  /\ (Returned("execute") /\ FailedAtNode) => outcome.error = caught

\* execute() has thrown the unknown-domain error at its second node, after the
\* first node was run
C10_Witness ==
  /\ Returned("execute")
  /\ outcome.error = SystemNotRegistered("crm")
  /\ pos = 2
  /\ Len(dispatched) = 1

\* ======================================================================
\* The hyper-graph index: HyperEdge and HyperGraphNeuralNetwork (hgnn.js)
\* ======================================================================

\* most node ids in one addHyperEdge call
MaxEdgeNodes == 2

\* addHyperEdge calls made on one index
MaxEdgeAdds == 2

\* most hops asked of propagate() on the index
MaxPropagateHops == 2

\* a node id is a string `${system}:${entity}`, kept as its sequence of pieces
NodeId(system, entity) == <<system, ":", entity>>

\* the three nodes of the documented example
IndexKeys == { NodeId("scm", "s1"), NodeId("crm", "c1"), NodeId("mrp", "m1") }

EdgeIds == {"e1", "e2"}

EdgeType(edgeId) == IF edgeId = "e1" THEN "supply_chain_integration"
                    ELSE "customer_training"

\* weights in hundredths: 0.9 for one edge, 1.5 for the other
EdgeWeight(edgeId) == IF edgeId = "e1" THEN 90 ELSE 150

\* the node ids lists of addHyperEdge: none, one or more ids, in any order
EdgeNodeLists ==
  { s \in SeqsUpTo(IndexKeys, MaxEdgeNodes) : Cardinality(Range(s)) = Len(s) }

\* the embedding a caller passes for a node: { vector, dimension }
EmbeddingOf(nodeId) == [vector |-> <<"vector", nodeId>>, dimension |-> 128]

\* new HyperEdge(id, nodes, type, weight, metadata)
NewHyperEdge(id, nodeIds, type, weight, metadata) ==
  [id |-> id, nodes |-> nodeIds, type |-> type, weight |-> weight,
   metadata |-> metadata]

NodeNotFound(nodeId) == <<"Node not found", nodeId>>

\* an index call is made between the calls of the caller, never inside execute()
IndexReady == pc = "idle"

\* the index as one value: the two Maps with their key orders, and what the
\* last call on it threw and returned
Index == [nodeKeys |-> hgNodeKeys, nodes |-> hgNodes, edgeKeys |-> hgEdgeKeys,
          edges |-> hyperEdges, error |-> NoError, value |-> <<>>]

\* HyperGraphNeuralNetwork.addNode(nodeId, system, type, embedding)
AddNodeTo(idx, nodeId, system, type, embedding) ==
  [idx EXCEPT
     !.nodes = MapSet(idx.nodes, nodeId,
                      [system |-> system, type |-> type,
                       embedding |-> [vector |-> embedding.vector,
                                      dimension |-> embedding.dimension,
                                      system |-> system]]),
     !.nodeKeys = IF nodeId \in DOMAIN idx.nodes THEN idx.nodeKeys
                  ELSE Append(idx.nodeKeys, nodeId)]

\* the first node id of nodeIds that #nodes does not have, 0 when it has all
FirstMissing(nodeIds, stored) ==
  IF \A i \in 1..Len(nodeIds) : nodeIds[i] \in DOMAIN stored THEN 0
  ELSE CHOOSE i \in 1..Len(nodeIds) :
         /\ nodeIds[i] \notin DOMAIN stored
         /\ \A j \in 1..(i - 1) : nodeIds[j] \in DOMAIN stored

\* an addHyperEdge that stores the edge before it looks at the node ids
AddHyperEdgeStoreFirst(idx, edgeId, nodeIds, type, weight, metadata) ==
  LET missing   == FirstMissing(nodeIds, idx.nodes)
      hyperEdge == NewHyperEdge(edgeId, nodeIds, type, weight, metadata)
  IN [idx EXCEPT
        !.edges = MapSet(idx.edges, edgeId, hyperEdge),
        !.edgeKeys = IF edgeId \in DOMAIN idx.edges THEN idx.edgeKeys
                     ELSE Append(idx.edgeKeys, edgeId),
        !.error = IF missing # 0 THEN NodeNotFound(nodeIds[missing]) ELSE NoError,
        !.value = IF missing # 0 THEN <<>> ELSE hyperEdge]

\* an addHyperEdge without the loop over the node ids
AddHyperEdgeUnchecked(idx, edgeId, nodeIds, type, weight, metadata) ==
  LET hyperEdge == NewHyperEdge(edgeId, nodeIds, type, weight, metadata)
  IN [idx EXCEPT
        !.edges = MapSet(idx.edges, edgeId, hyperEdge),
        !.edgeKeys = IF edgeId \in DOMAIN idx.edges THEN idx.edgeKeys
                     ELSE Append(idx.edgeKeys, edgeId),
        !.error = NoError,
        !.value = hyperEdge]

\* HyperGraphNeuralNetwork.addHyperEdge(edgeId, nodeIds, type, weight, metadata):
\* the loop over nodeIds throws at the first id that is not stored, before
\* anything is written; otherwise the edge is set under edgeId
AddHyperEdge(idx, edgeId, nodeIds, type, weight, metadata) ==
  LET missing   == FirstMissing(nodeIds, idx.nodes)
      hyperEdge == NewHyperEdge(edgeId, nodeIds, type, weight, metadata)
  IN IF missing # 0
     THEN [idx EXCEPT !.error = NodeNotFound(nodeIds[missing]), !.value = <<>>]
     ELSE [idx EXCEPT
             !.edges = MapSet(idx.edges, edgeId, hyperEdge),
             !.edgeKeys = IF edgeId \in DOMAIN idx.edges THEN idx.edgeKeys
                          ELSE Append(idx.edgeKeys, edgeId),
             !.error = NoError,
             !.value = hyperEdge]

\* the index becomes idx
IndexBecomes(idx) ==
  /\ hgNodeKeys' = idx.nodeKeys
  /\ hgNodes' = idx.nodes
  /\ hgEdgeKeys' = idx.edgeKeys
  /\ hyperEdges' = idx.edges

\* a caller calls addNode on the index
HgAddNode(nodeId, system, type, embedding) ==
  /\ IndexReady
  /\ IndexBecomes(AddNodeTo(Index, nodeId, system, type, embedding))
  /\ reply' = [call |-> "addNode", args |-> <<nodeId>>, error |-> NoError,
               value |-> <<>>]
  /\ UNCHANGED <<hyperdKeys, hyperdSystems, initialized, edgeAdds>>
  /\ UNCHANGED graphVars
  /\ UNCHANGED callVars

\* a caller calls addHyperEdge on the index
HgAddHyperEdge(edgeId, nodeIds, type, weight, metadata) ==
  /\ IndexReady
  /\ edgeAdds > 0
  /\ edgeAdds' = edgeAdds - 1
  /\ LET idx == AddHyperEdge(Index, edgeId, nodeIds, type, weight, metadata)
     IN /\ IndexBecomes(idx)
        /\ reply' = [call |-> "addHyperEdge",
                     args |-> <<edgeId, nodeIds, type, weight>>,
                     error |-> idx.error, value |-> idx.value]
  /\ UNCHANGED <<hyperdKeys, hyperdSystems, initialized>>
  /\ UNCHANGED graphVars
  /\ UNCHANGED callVars

\* getNode(nodeId), getHyperEdge(edgeId)
GetNode(nodeId) == MapGet(hgNodes, nodeId)

GetHyperEdge(edgeId) == MapGet(hyperEdges, edgeId)

\* the elements of s that are in keep, in the order of s
SelectIds(s, keep) == SelectSeq(s, LAMBDA x : x \in keep)

\* the node ids of the edges, edge after edge, as the two nested loops of
\* propagate read them
RECURSIVE NodesOfEdges(_, _)
NodesOfEdges(edgeIds, edges) ==
  IF edgeIds = <<>> THEN <<>>
  ELSE edges[Head(edgeIds)].nodes \o NodesOfEdges(Tail(edgeIds), edges)

\* the ids of ids that are not in seen, each once, in the order of ids
RECURSIVE NewlySeen(_, _)
NewlySeen(ids, seen) ==
  IF ids = <<>> THEN <<>>
  ELSE IF Head(ids) \in seen THEN NewlySeen(Tail(ids), seen)
  ELSE <<Head(ids)>> \o NewlySeen(Tail(ids), seen \cup {Head(ids)})

TargetNotFound(nodeId) == <<"Target node not found", nodeId>>

\* a loop whose round also follows the edges of the nodes it has just found
RECURSIVE PropagateLoopFollowing(_, _, _)
PropagateLoopFollowing(idx, st, hops) ==
  IF st.hop >= hops THEN st
  ELSE
    LET touching(seen) ==
          SelectSeq(idx.edgeKeys,
                    LAMBDA e : \E i \in 1..Len(idx.edges[e].nodes) :
                                 idx.edges[e].nodes[i] \in seen)
        first == NewlySeen(NodesOfEdges(touching(st.visited), idx.edges), st.visited)
        found == NewlySeen(NodesOfEdges(touching(st.visited \cup Range(first)),
                                        idx.edges), st.visited)
    IN IF touching(st.visited) = <<>> THEN st
       ELSE PropagateLoopFollowing(
              idx, [st EXCEPT !.hop = @ + 1, !.visited = @ \cup Range(found),
                              !.folded = IF found = <<>> THEN @ ELSE Append(@, found)],
              hops)

\* the loop "for (let hop = 0; hop < hops; hop++)" of propagate: st.hop is
\* the loop counter, st.visited the Set visited, st.folded the neighbours that
\* each round folded into currentEmbedding
RECURSIVE PropagateLoop(_, _, _)
PropagateLoop(idx, st, hops) ==
  IF st.hop >= hops THEN st
  ELSE
    LET relevantEdges ==
          SelectSeq(idx.edgeKeys,
                    LAMBDA e : \E i \in 1..Len(idx.edges[e].nodes) :
                                 idx.edges[e].nodes[i] \in st.visited)
        found == NewlySeen(NodesOfEdges(relevantEdges, idx.edges), st.visited)
        neighbors == SelectIds(found, DOMAIN idx.nodes)
    IN IF relevantEdges = <<>> THEN st                         \* break
       ELSE IF neighbors = <<>>
       THEN PropagateLoop(idx, [st EXCEPT !.hop = @ + 1,       \* continue
                                          !.visited = @ \cup Range(found)], hops)
       ELSE PropagateLoop(idx, [st EXCEPT !.hop = @ + 1,
                                          !.visited = @ \cup Range(found),
                                          !.folded = Append(@, neighbors)], hops)

\* what propagate(targetNodeId, hops) returns: hopsCompleted is the argument
\* hops; the embedding is kept as the node's embedding and the neighbours
\* folded into it round after round
PropagateResult(idx, targetNodeId, hops) ==
  IF targetNodeId \notin DOMAIN idx.nodes
  THEN [error |-> TargetNotFound(targetNodeId), value |-> <<>>]
  ELSE LET st == PropagateLoop(idx, [hop |-> 0, visited |-> {targetNodeId},
                                     folded |-> <<>>], hops)
       IN [error |-> NoError,
           value |-> [nodeId |-> targetNodeId,
                      embedding |-> [of |-> idx.nodes[targetNodeId].embedding,
                                     folded |-> st.folded],
                      hopsCompleted |-> hops,
                      nodesVisited |-> Cardinality(st.visited)]]

\* a caller calls propagate on the index
Propagate(targetNodeId, hops) ==
  /\ IndexReady
  /\ LET res == PropagateResult(Index, targetNodeId, hops)
     IN reply' = [call |-> "propagate", args |-> <<targetNodeId, hops>>,
                  error |-> res.error, value |-> res.value]
  /\ UNCHANGED <<hgNodeKeys, hgNodes, hgEdgeKeys, hyperEdges, hyperdKeys,
                 hyperdSystems, initialized, edgeAdds>>
  /\ UNCHANGED graphVars
  /\ UNCHANGED callVars

\* a new index, used on its own
InitIndex == NewGraph(0, 0) /\ NewHyperd(MaxEdgeAdds) /\ NoCalls

NextIndex ==
  \/ \E nodeId \in IndexKeys :
       HgAddNode(nodeId, nodeId[1], "entity", EmbeddingOf(nodeId))
  \/ \E edgeId \in EdgeIds, nodeIds \in EdgeNodeLists :
       HgAddHyperEdge(edgeId, nodeIds, EdgeType(edgeId), EdgeWeight(edgeId), <<>>)
  \/ \E targetNodeId \in IndexKeys, hops \in 0..MaxPropagateHops :
       Propagate(targetNodeId, hops)

SpecIndex == InitIndex /\ [][NextIndex]_vars

\* ======================================================================
\* Hyperd: the systems, the index built from them, the cross-domain edges
\* ======================================================================

HyperdNames == {"scm", "crm", "mrp", "lms"}

\* what exportEmbeddings() holds for an entity: an array of numbers, an object
\* of arrays, or a number
ArrayEmbedding == [kind |-> "array", length |-> 128]

NestedEmbedding(subId) == [kind |-> "object", entries |-> << <<subId, ArrayEmbedding>> >>]

NumberEmbedding == [kind |-> "number"]

\* the entities of the edge configs, as each system exports them
FullExports(name) ==
  CASE name = "scm" -> << <<"s1", ArrayEmbedding>>, <<"d1", ArrayEmbedding>> >>
    [] name = "crm" -> << <<"c1", ArrayEmbedding>>, <<"c3", ArrayEmbedding>> >>
    [] name = "mrp" -> << <<"m1", ArrayEmbedding>>, <<"m6", ArrayEmbedding>> >>
    [] name = "lms" -> << <<"l1", ArrayEmbedding>> >>

\* a system that exports less: no exportEmbeddings function (scm), one entity
\* only (crm), a nested embedding (mrp), a number (lms)
OtherExports(name) ==
  CASE name = "scm" -> Undefined
    [] name = "crm" -> << <<"c1", ArrayEmbedding>> >>
    [] name = "mrp" -> << <<"m1", NestedEmbedding("bom")>>, <<"m6", ArrayEmbedding>> >>
    [] name = "lms" -> << <<"l1", NumberEmbedding>> >>

HyperdInstances(name) ==
  { [methods |-> {}, exports |-> FullExports(name)],
    [methods |-> {}, exports |-> OtherExports(name)] }

\* Hyperd.registerSystem(name, instance): kept in #systems and registered in
\* the #computeGraph of the Hyperd
HyperdRegisterSystem(name, instance) ==
  /\ IndexReady
  /\ hyperdSystems' = MapSet(hyperdSystems, name, instance)
  /\ hyperdKeys' = IF name \in DOMAIN hyperdSystems THEN hyperdKeys
                   ELSE Append(hyperdKeys, name)
  /\ systems' = MapSet(systems, name, instance.methods)
  /\ reply' = [call |-> "registerSystem", args |-> <<name>>, error |-> NoError,
               value |-> <<>>]
  /\ UNCHANGED <<hgNodeKeys, hgNodes, hgEdgeKeys, hyperEdges, initialized, edgeAdds>>
  /\ UNCHANGED <<nodeKeys, nodes, executionOrder, pc, execVars, outcome, adds, runs>>
  /\ UNCHANGED callVars

\* the loop over the entries of a nested embedding
RECURSIVE AddSubEmbeddings(_, _, _, _)
AddSubEmbeddings(idx, systemName, entityId, entries) ==
  IF entries = <<>> THEN idx
  ELSE LET subId  == Head(entries)[1]
           subEmb == Head(entries)[2]
           next == IF subEmb.kind = "array"
                   THEN AddNodeTo(idx, <<systemName, ":", entityId, ":", subId>>,
                                  systemName, "entity",
                                  [vector |-> subEmb, dimension |-> subEmb.length])
                   ELSE idx
       IN AddSubEmbeddings(next, systemName, entityId, Tail(entries))

\* the loop over the entries of exportEmbeddings()
RECURSIVE AddEmbeddings(_, _, _)
AddEmbeddings(idx, systemName, entries) ==
  IF entries = <<>> THEN idx
  ELSE LET entityId  == Head(entries)[1]
           embedding == Head(entries)[2]
           next == IF embedding.kind = "array"
                   THEN AddNodeTo(idx, NodeId(systemName, entityId), systemName,
                                  "entity",
                                  [vector |-> embedding, dimension |-> embedding.length])
                   ELSE IF embedding.kind = "object"
                   THEN AddSubEmbeddings(idx, systemName, entityId, embedding.entries)
                   ELSE idx
       IN AddEmbeddings(next, systemName, Tail(entries))

\* the loop over the entries of #systems
RECURSIVE AddSystems(_, _, _)
AddSystems(idx, names, sys) ==
  IF names = <<>> THEN idx
  ELSE LET name == Head(names)
           next == IF sys[name].exports # Undefined
                   THEN AddEmbeddings(idx, name, sys[name].exports)
                   ELSE idx
       IN AddSystems(next, Tail(names), sys)

\* the index after initializeHyperGraph()
InitializedIndex(idx) == AddSystems(idx, hyperdKeys, hyperdSystems)

\* Hyperd.initializeHyperGraph()
InitializeHyperGraph ==
  /\ IndexReady
  /\ IndexBecomes(InitializedIndex(Index))
  /\ initialized' = TRUE
  /\ reply' = [call |-> "initializeHyperGraph", args |-> <<>>, error |-> NoError,
               value |-> <<>>]
  /\ UNCHANGED <<hyperdKeys, hyperdSystems, edgeAdds>>
  /\ UNCHANGED graphVars
  /\ UNCHANGED callVars

\* const edgeConfigs of createCrossDomainEdges, weights in hundredths
EdgeConfigs ==
  << [id |-> "supply_to_customer_edge_1",
      nodes |-> <<NodeId("scm", "s1"), NodeId("crm", "c1"), NodeId("mrp", "m1")>>,
      type |-> "supply_chain_integration", weight |-> 90,
      metadata |-> "supplier_to_enterprise_customer_material"],
     [id |-> "employee_learning_edge_1",
      nodes |-> <<NodeId("crm", "c1"), NodeId("lms", "l1")>>,
      type |-> "customer_training", weight |-> 80,
      metadata |-> "enterprise_customer_employee_learning"],
     [id |-> "material_demand_edge_1",
      nodes |-> <<NodeId("mrp", "m6"), NodeId("crm", "c3"), NodeId("scm", "d1")>>,
      type |-> "demand_fulfillment", weight |-> 95,
      metadata |-> "finished_good_to_customer_via_distributor"] >>

\* a loop over the edge configs that stores every edge
RECURSIVE AddConfiguredEdgesUnchecked(_, _, _)
AddConfiguredEdgesUnchecked(idx, configs, log) ==
  IF configs = <<>> THEN [idx EXCEPT !.error = NoError, !.value = log]
  ELSE LET config == Head(configs)
           tried == AddHyperEdgeUnchecked(idx, config.id, config.nodes, config.type,
                                          config.weight, config.metadata)
       IN AddConfiguredEdgesUnchecked(tried, Tail(configs), log)

\* a loop over the edge configs that the first error ends
RECURSIVE AddConfiguredEdgesStopping(_, _, _)
AddConfiguredEdgesStopping(idx, configs, log) ==
  IF configs = <<>> THEN [idx EXCEPT !.error = NoError, !.value = log]
  ELSE LET config == Head(configs)
           tried == AddHyperEdge(idx, config.id, config.nodes, config.type,
                                 config.weight, config.metadata)
       IN IF tried.error # NoError
          THEN [tried EXCEPT !.value = Append(log, <<config.id, tried.error>>)]
          ELSE AddConfiguredEdgesStopping(tried, Tail(configs), log)

\* the loop over the edge configs: each addHyperEdge in a try, its error logged
\* with console.error; value is the log
RECURSIVE AddConfiguredEdges(_, _, _)
AddConfiguredEdges(idx, configs, log) ==
  IF configs = <<>> THEN [idx EXCEPT !.error = NoError, !.value = log]
  ELSE LET config == Head(configs)
           tried == AddHyperEdge(idx, config.id, config.nodes, config.type,
                                 config.weight, config.metadata)
       IN AddConfiguredEdges(tried, Tail(configs),
                             IF tried.error # NoError
                             THEN Append(log, <<config.id, tried.error>>)
                             ELSE log)

\* the index after createCrossDomainEdges()
CrossDomainIndex(idx) ==
  AddConfiguredEdges(IF initialized THEN idx ELSE InitializedIndex(idx),
                     EdgeConfigs, <<>>)

\* Hyperd.createCrossDomainEdges()
CreateCrossDomainEdges ==
  /\ IndexReady
  /\ LET idx == CrossDomainIndex(Index)
     IN /\ IndexBecomes(idx)
        /\ reply' = [call |-> "createCrossDomainEdges", args |-> <<>>,
                     error |-> NoError, value |-> idx.value]
  /\ initialized' = TRUE
  /\ UNCHANGED <<hyperdKeys, hyperdSystems, edgeAdds>>
  /\ UNCHANGED graphVars
  /\ UNCHANGED callVars

InitHyperd == NewGraph(0, 0) /\ NewHyperd(0) /\ NoCalls

\* every call that writes to an index: the calls of Hyperd, and addNode and
\* addHyperEdge called on the index itself
InitBuild == NewGraph(0, 0) /\ NewHyperd(MaxEdgeAdds) /\ NoCalls

\* the two systems of the edge config 'employee_learning_edge_1'
BuildNames == {"crm", "lms"}

\* the node ids a caller adds to an index that Hyperd also fills
BuildKeys == { NodeId("crm", "c1"), NodeId("mrp", "m1") }

NextBuild ==
  \/ \E name \in BuildNames : \E instance \in HyperdInstances(name) :
       HyperdRegisterSystem(name, instance)
  \/ InitializeHyperGraph
  \/ CreateCrossDomainEdges
  \/ \E nodeId \in BuildKeys :
       HgAddNode(nodeId, nodeId[1], "entity", EmbeddingOf(nodeId))
  \/ \E nodeIds \in SeqsUpTo(BuildKeys, MaxEdgeNodes) :
       HgAddHyperEdge("e1", nodeIds, EdgeType("e1"), EdgeWeight("e1"), <<>>)

SpecBuild == InitBuild /\ [][NextBuild]_vars

\* ======================================================================
\* Paths: findCrossDomainPaths (hgnn.js) and crossDomainQuery (hyperd.js)
\* ======================================================================

\* the paths kept by crossDomainQuery: paths.slice(0, 10)
PathLimit == 10

\* most maxHops asked of crossDomainQuery
MaxHops == 4

\* most node ids in one addHyperEdge call on an index that is queried
MaxCliqueNodes == 4

\* newPath.join('-'): the pieces of the node ids with "-" between the ids
RECURSIVE JoinPath(_)
JoinPath(path) ==
  IF path = <<>> THEN <<>>
  ELSE IF Len(path) = 1 THEN path[1]
  ELSE path[1] \o <<"-">> \o JoinPath(Tail(path))

\* neighbours that may already be on the path
RECURSIVE NeighborsOfRevisiting(_, _, _)
NeighborsOfRevisiting(edgeIds, edges, path) ==
  IF edgeIds = <<>> THEN <<>>
  ELSE LET edge == edges[Head(edgeIds)]
           currentNode == path[Len(path)]
           here == IF currentNode \in Range(edge.nodes)
                   THEN SelectSeq(edge.nodes, LAMBDA n : n # currentNode)
                   ELSE <<>>
       IN here \o NeighborsOfRevisiting(Tail(edgeIds), edges, path)

\* the neighbours of the last node of path, as the loops over #hyperEdges and
\* over edge.nodes meet them: an id comes once for each edge that holds it
RECURSIVE NeighborsOf(_, _, _)
NeighborsOf(edgeIds, edges, path) ==
  IF edgeIds = <<>> THEN <<>>
  ELSE LET edge == edges[Head(edgeIds)]
           currentNode == path[Len(path)]
           here == IF currentNode \in Range(edge.nodes)
                   THEN SelectSeq(edge.nodes,
                                  LAMBDA n : n # currentNode /\ n \notin Range(path))
                   ELSE <<>>
       IN here \o NeighborsOf(Tail(edgeIds), edges, path)

\* pushes that do not look the key up
RECURSIVE PushPathsUnmarked(_, _, _)
PushPathsUnmarked(st, path, neighbors) ==
  IF neighbors = <<>> THEN st
  ELSE LET newPath == Append(path, Head(neighbors))
           pathKey == JoinPath(newPath)
       IN PushPathsUnmarked([st EXCEPT !.visited = @ \cup {pathKey},
                                       !.queue = Append(@, newPath)],
                            path, Tail(neighbors))

\* the pushes of one path's neighbours: a path whose key is new is queued
RECURSIVE PushPaths(_, _, _)
PushPaths(st, path, neighbors) ==
  IF neighbors = <<>> THEN st
  ELSE LET newPath == Append(path, Head(neighbors))
           pathKey == JoinPath(newPath)
       IN PushPaths(IF pathKey \in st.visited THEN st
                    ELSE [st EXCEPT !.visited = @ \cup {pathKey},
                                    !.queue = Append(@, newPath)],
                    path, Tail(neighbors))

\* a search that extends every path of at most maxHops + 1 node ids
RECURSIVE SearchPathsTooFar(_, _, _, _)
SearchPathsTooFar(idx, st, targetNodeId, maxHops) ==
  IF st.queue = <<>> THEN st.paths
  ELSE LET path == Head(st.queue)
           rest == [st EXCEPT !.queue = Tail(@)]
       IN IF path[Len(path)] = targetNodeId
          THEN SearchPathsTooFar(idx, [rest EXCEPT !.paths = Append(@, path)],
                                 targetNodeId, maxHops)
          ELSE IF Len(path) > maxHops + 1
          THEN SearchPathsTooFar(idx, rest, targetNodeId, maxHops)
          ELSE SearchPathsTooFar(
                 idx, PushPaths(rest, path, NeighborsOf(idx.edgeKeys, idx.edges, path)),
                 targetNodeId, maxHops)

\* a search that reports the paths it drops at maxHops node ids
RECURSIVE SearchPathsKeepingDropped(_, _, _, _)
SearchPathsKeepingDropped(idx, st, targetNodeId, maxHops) ==
  IF st.queue = <<>> THEN st.paths
  ELSE LET path == Head(st.queue)
           rest == [st EXCEPT !.queue = Tail(@)]
       IN IF path[Len(path)] = targetNodeId \/ Len(path) >= maxHops
          THEN SearchPathsKeepingDropped(idx, [rest EXCEPT !.paths = Append(@, path)],
                                         targetNodeId, maxHops)
          ELSE SearchPathsKeepingDropped(
                 idx, PushPaths(rest, path, NeighborsOf(idx.edgeKeys, idx.edges, path)),
                 targetNodeId, maxHops)

\* the loop "while (queue.length > 0)": a path that ends at the target is
\* kept, a path of maxHops node ids or more is dropped, any other is extended
RECURSIVE SearchPaths(_, _, _, _)
SearchPaths(idx, st, targetNodeId, maxHops) ==
  IF st.queue = <<>> THEN st.paths
  ELSE LET path == Head(st.queue)
           rest == [st EXCEPT !.queue = Tail(@)]
       IN IF path[Len(path)] = targetNodeId
          THEN SearchPaths(idx, [rest EXCEPT !.paths = Append(@, path)],
                           targetNodeId, maxHops)
          ELSE IF Len(path) >= maxHops
          THEN SearchPaths(idx, rest, targetNodeId, maxHops)
          ELSE SearchPaths(
                 idx, PushPaths(rest, path, NeighborsOf(idx.edgeKeys, idx.edges, path)),
                 targetNodeId, maxHops)

\* path.map(nodeId => this.#nodes.get(nodeId)?.system).filter(Boolean)
SystemsOf(idx, path) ==
  LET stored == SelectSeq(path, LAMBDA n : n \in DOMAIN idx.nodes)
  IN [i \in 1..Len(stored) |-> idx.nodes[stored[i]].system]

\* findCrossDomainPaths(sourceNodeId, targetNodeId, maxHops)
FindCrossDomainPaths(idx, sourceNodeId, targetNodeId, maxHops) ==
  LET paths == SearchPaths(idx, [queue |-> << <<sourceNodeId>> >>, visited |-> {},
                                 paths |-> <<>>], targetNodeId, maxHops)
  IN [i \in 1..Len(paths) |->
        [path |-> paths[i], length |-> Len(paths[i]) - 1,
         systems |-> SystemsOf(idx, paths[i])]]

\* the loop over targetNodes: the paths to each target, target after target
RECURSIVE PathsToTargets(_, _, _, _)
PathsToTargets(idx, sourceNodeId, targetNodes, maxHops) ==
  IF targetNodes = <<>> THEN <<>>
  ELSE FindCrossDomainPaths(idx, sourceNodeId, Head(targetNodes), maxHops)
         \o PathsToTargets(idx, sourceNodeId, Tail(targetNodes), maxHops)

\* paths.slice(0, n)
SliceFirst(paths, n) == SubSeq(paths, 1, IF Len(paths) < n THEN Len(paths) ELSE n)

\* a query that returns every path it found
QueryResultUncut(idx, sourceSystem, sourceEntity, targetSystem, maxHops) ==
  LET targetNodes == SelectSeq(idx.nodeKeys,
                               LAMBDA n : idx.nodes[n].system = targetSystem)
      paths == PathsToTargets(idx, NodeId(sourceSystem, sourceEntity),
                              targetNodes, maxHops)
  IN [sourceSystem |-> sourceSystem, sourceEntity |-> sourceEntity,
      targetSystem |-> targetSystem, pathsFound |-> Len(paths), paths |-> paths]

\* what crossDomainQuery returns on the index idx
QueryResult(idx, sourceSystem, sourceEntity, targetSystem, maxHops) ==
  LET targetNodes == SelectSeq(idx.nodeKeys,
                               LAMBDA n : idx.nodes[n].system = targetSystem)
      paths == PathsToTargets(idx, NodeId(sourceSystem, sourceEntity),
                              targetNodes, maxHops)
  IN [sourceSystem |-> sourceSystem, sourceEntity |-> sourceEntity,
      targetSystem |-> targetSystem, pathsFound |-> Len(paths),
      paths |-> SliceFirst(paths, PathLimit)]

\* Hyperd.crossDomainQuery(sourceSystem, sourceEntity, targetSystem, maxHops):
\* a Hyperd that is not initialized first builds its index and its edges
CrossDomainQuery(sourceSystem, sourceEntity, targetSystem, maxHops) ==
  /\ IndexReady
  /\ LET idx == IF initialized THEN Index
                ELSE AddConfiguredEdges(InitializedIndex(Index), EdgeConfigs, <<>>)
     IN /\ IndexBecomes(idx)
        /\ reply' = [call |-> "crossDomainQuery",
                     args |-> <<sourceSystem, sourceEntity, targetSystem, maxHops>>,
                     error |-> NoError,
                     value |-> QueryResult(idx, sourceSystem, sourceEntity,
                                           targetSystem, maxHops)]
  /\ initialized' = TRUE
  /\ UNCHANGED <<hyperdKeys, hyperdSystems, edgeAdds>>
  /\ UNCHANGED graphVars
  /\ UNCHANGED callVars

\* the sources and the targets of the queries on a Hyperd
QuerySources == { <<"crm", "c1">>, <<"lms", "x9">> }

QueryTargets == {"mrp", "lms"}

\* the systems of the edge configs 'supply_to_customer_edge_1' and
\* 'material_demand_edge_1'
QueryNames == {"scm", "crm", "mrp"}

\* scm and crm export their entities; mrp exports them flat or nested
QueryInstances(name) ==
  IF name = "mrp" THEN HyperdInstances(name)
  ELSE { [methods |-> {}, exports |-> FullExports(name)] }

\* a Hyperd and its callers
NextHyperd ==
  \/ \E name \in QueryNames : \E instance \in QueryInstances(name) :
       HyperdRegisterSystem(name, instance)
  \/ InitializeHyperGraph
  \/ CreateCrossDomainEdges
  \/ \E source \in QuerySources, targetSystem \in QueryTargets, maxHops \in 0..MaxHops :
       CrossDomainQuery(source[1], source[2], targetSystem, maxHops)

SpecHyperd == InitHyperd /\ [][NextHyperd]_vars

\* a Hyperd whose index has more paths than the edge configs give: three
\* nodes of one system and one of another, hyper-edges over two or more of them
CliqueExports(name) ==
  IF name = "crm"
  THEN << <<"c1", ArrayEmbedding>>, <<"c2", ArrayEmbedding>>, <<"c3", ArrayEmbedding>> >>
  ELSE << <<"m1", ArrayEmbedding>> >>

CliqueKeys == << NodeId("crm", "c1"), NodeId("crm", "c2"), NodeId("crm", "c3"),
                 NodeId("mrp", "m1") >>

CliqueNodeLists ==
  { s \in SeqsUpTo(1..Len(CliqueKeys), MaxCliqueNodes) :
      Len(s) >= 2 /\ \A i \in 1..(Len(s) - 1) : s[i] < s[i + 1] }

CliqueSources == { <<"crm", "c1">>, <<"mrp", "m1">>, <<"crm", "x9">> }

CliqueTargets == {"crm", "mrp"}

InitPaths == NewGraph(0, 0) /\ NewHyperd(MaxEdgeAdds) /\ NoCalls

NextPaths ==
  \/ \E name \in {"crm", "mrp"} :
       HyperdRegisterSystem(name, [methods |-> {}, exports |-> CliqueExports(name)])
  \/ InitializeHyperGraph
  \/ \E edgeId \in EdgeIds, s \in CliqueNodeLists :
       HgAddHyperEdge(edgeId, [i \in 1..Len(s) |-> CliqueKeys[s[i]]],
                      EdgeType(edgeId), EdgeWeight(edgeId), <<>>)
  \/ \E source \in CliqueSources, targetSystem \in CliqueTargets, maxHops \in 0..MaxHops :
       CrossDomainQuery(source[1], source[2], targetSystem, maxHops)

SpecPaths == InitPaths /\ [][NextPaths]_vars

\* ------------------------------------------------ properties of the index

\* the step is a call of addHyperEdge
IsAddHyperEdgeStep == edgeAdds' # edgeAdds /\ reply'.call = "addHyperEdge"

\* C11: an addHyperEdge call whose node ids list holds, at any position, an
\* id that is not stored fails, and leaves the nodes and the hyper-edges of
\* the index exactly as they were
C11_AddHyperEdgeAtomicStep ==
  (IsAddHyperEdgeStep /\ FirstMissing(reply'.args[2], hgNodes) # 0)
    => /\ reply'.error = NodeNotFound(reply'.args[2][FirstMissing(reply'.args[2], hgNodes)])
       /\ hgNodes' = hgNodes
       /\ hgNodeKeys' = hgNodeKeys
       /\ hyperEdges' = hyperEdges
       /\ hgEdgeKeys' = hgEdgeKeys

C11_AddHyperEdgeAtomic == [][C11_AddHyperEdgeAtomicStep]_vars

\* a call failed on its second node id, the first being stored, on an index
\* that holds an edge
C11_Witness ==
  /\ reply.call = "addHyperEdge"
  /\ reply.error # NoError
  /\ Len(reply.args[2]) = 2
  /\ reply.args[2][1] \in DOMAIN hgNodes
  /\ reply.args[2][2] \notin DOMAIN hgNodes
  /\ reply.args[1] \notin DOMAIN hyperEdges
  /\ hgEdgeKeys # <<>>

\* C12: every node id listed by a stored hyper-edge is the key of a stored
\* node, whatever addNode, addHyperEdge, initializeHyperGraph and
\* createCrossDomainEdges calls were made
C12_ReferentialIntegrity ==
  \A edgeId \in DOMAIN hyperEdges :
    \A i \in 1..Len(hyperEdges[edgeId].nodes) :
      hyperEdges[edgeId].nodes[i] \in DOMAIN hgNodes

\* createCrossDomainEdges has stored one configured edge and refused another
\* for a missing node, on an index that also holds an edge added by a caller
C12_Witness ==
  /\ reply.call = "createCrossDomainEdges"
  /\ reply.value # <<>>
  /\ \E i \in 1..Len(EdgeConfigs) : EdgeConfigs[i].id \in DOMAIN hyperEdges
  /\ \E edgeId \in EdgeIds : edgeId \in DOMAIN hyperEdges

\* C13: every stored hyper-edge connects at least two node ids and has a
\* weight between 0 and 1 (0 to 100 hundredths)
C13_EdgeArityAndWeight ==
  \A edgeId \in DOMAIN hyperEdges :
    /\ Cardinality(Range(hyperEdges[edgeId].nodes)) >= 2
    /\ hyperEdges[edgeId].weight >= 0
    /\ hyperEdges[edgeId].weight <= 100

\* C14: a hyper-edge is never changed once created: what getHyperEdge(id)
\* returns for a stored id stays the same, also after a later addHyperEdge
\* with that id
C14_EdgeImmutableStep ==
  \A edgeId \in DOMAIN hyperEdges : GetHyperEdge(edgeId)' = GetHyperEdge(edgeId)

C14_EdgesImmutable == [][C14_EdgeImmutableStep]_vars

\* the nodes reached from the set seen through one hyper-edge
Expanded(seen) ==
  seen \cup UNION { Range(hyperEdges[e].nodes) :
                    e \in { x \in DOMAIN hyperEdges :
                            Range(hyperEdges[x].nodes) \cap seen # {} } }

\* the rounds, at most k, that each reach a node not reached before
RECURSIVE RoundsCompleted(_, _)
RoundsCompleted(seen, k) ==
  IF k = 0 \/ Expanded(seen) = seen THEN 0
  ELSE 1 + RoundsCompleted(Expanded(seen), k - 1)

\* C20: propagate reports as its hop count the rounds it completed: it stops
\* at the first round that finds no new neighbour, and the count is then
\* smaller than the hops asked for (0 for a node in no hyper-edge)
C20_HopsActuallyCompleted ==
  (reply.call = "propagate" /\ reply.error = NoError)
    => reply.value.hopsCompleted = RoundsCompleted({reply.args[1]}, reply.args[2])

\* --------------------------------------------- properties of the queries

\* crossDomainQuery has returned
Queried == reply.call = "crossDomainQuery" /\ reply.error = NoError

QuerySource == NodeId(reply.args[1], reply.args[2])

QueryTarget == reply.args[3]

QueryMaxHops == reply.args[4]

\* the returned paths, as lists of node ids
ReturnedPaths == { reply.value.paths[i].path : i \in 1..Len(reply.value.paths) }

\* two distinct node ids that one stored hyper-edge holds
SharingEdge(a, b) ==
  /\ a # b
  /\ \E e \in DOMAIN hyperEdges : {a, b} \subseteq Range(hyperEdges[e].nodes)

\* the paths of at most k edges from source that visit no node twice and
\* move from a node to a node sharing a hyper-edge with it
RECURSIVE SimplePaths(_, _)
SimplePaths(source, k) ==
  IF k <= 0 THEN { <<source>> }
  ELSE LET shorter == SimplePaths(source, k - 1)
       IN shorter \cup
            UNION { { Append(p, n) :
                      n \in { x \in DOMAIN hgNodes :
                              SharingEdge(p[Len(p)], x) /\ x \notin Range(p) } } :
                    p \in shorter }

\* those that end at a node of the system target
SimplePathsTo(source, target, k) ==
  { p \in SimplePaths(source, k) :
      p[Len(p)] \in DOMAIN hgNodes /\ hgNodes[p[Len(p)]].system = target }

\* C15: the path query returns no path of more than maxHops edges, and the
\* last node of every returned path is a node of the target system
C15_PathsWithinMaxHops ==
  Queried =>
    \A i \in 1..Len(reply.value.paths) :
      LET found == reply.value.paths[i]
          last == found.path[Len(found.path)]
      IN /\ Len(found.path) - 1 <= QueryMaxHops
         /\ found.length = Len(found.path) - 1
         /\ last \in DOMAIN hgNodes
         /\ hgNodes[last].system = QueryTarget

\* a query has returned a path of two edges or more to another system
C15_Witness ==
  /\ Queried
  /\ reply.args[1] # QueryTarget
  /\ \E i \in 1..Len(reply.value.paths) : reply.value.paths[i].length >= 2

\* C16: the path query finds every path of at most maxHops edges from the
\* source to a node of the target system that visits no node twice; a node of
\* the target system that shares a hyper-edge with the source is found with
\* maxHops = 1
C16_FindsEveryPath ==
  (Queried /\ reply.value.pathsFound <= PathLimit)
    => SimplePathsTo(QuerySource, QueryTarget, QueryMaxHops) \subseteq ReturnedPaths

\* C17: no returned path visits a node twice, consecutive nodes of a returned
\* path are distinct and share a stored hyper-edge, and every returned path
\* starts at the source
C17_PathsAreSimple ==
  Queried =>
    \A p \in ReturnedPaths :
      /\ p[1] = QuerySource
      /\ Cardinality(Range(p)) = Len(p)
      /\ \A j \in 1..(Len(p) - 1) : SharingEdge(p[j], p[j + 1])

\* a returned path of three nodes whose ends share a hyper-edge too
C17_Witness ==
  /\ Queried
  /\ \E p \in ReturnedPaths : Len(p) >= 3 /\ SharingEdge(p[1], p[3])

\* C18: a query whose source is connected to no node of the target system
\* within maxHops edges - the target system may have no node, the source may
\* be no node of the index - returns pathsFound = 0 and no path, with no error
C18_NoPathIsNotAnError ==
  (reply.call = "crossDomainQuery"
     /\ SimplePathsTo(QuerySource, QueryTarget, QueryMaxHops) = {})
    => /\ reply.error = NoError
       /\ reply.value.pathsFound = 0
       /\ reply.value.paths = <<>>

\* a source that is no node of the index was asked for, the system asked for
\* has nodes and the index has hyper-edges; a system with no node was asked for
C18_Witness ==
  /\ reply.call = "crossDomainQuery"
  /\ reply.value.pathsFound = 0
  /\ hgEdgeKeys # <<>>
  /\ \/ /\ QuerySource \notin DOMAIN hgNodes
        /\ \E n \in DOMAIN hgNodes : hgNodes[n].system = QueryTarget
     \/ /\ QuerySource \in DOMAIN hgNodes
        /\ \A n \in DOMAIN hgNodes : hgNodes[n].system # QueryTarget

\* C19: the returned list holds at most PathLimit paths, the first found;
\* pathsFound counts every path found and is never less than the list is long
C19_PathListCapped ==
  Queried =>
    LET all == QueryResultUncut(Index, reply.args[1], reply.args[2], QueryTarget,
                                QueryMaxHops).paths
    IN /\ Len(reply.value.paths) <= PathLimit
       /\ reply.value.pathsFound = Len(all)
       /\ reply.value.pathsFound >= Len(reply.value.paths)
       /\ \A i \in 1..Len(reply.value.paths) : reply.value.paths[i] = all[i]
       /\ Len(all) >= PathLimit => Len(reply.value.paths) = PathLimit

\* a query found more paths than it returns
C19_Witness ==
  /\ Queried
  /\ reply.value.pathsFound > PathLimit
  /\ Len(reply.value.paths) = PathLimit

\* the nodes within k hyper-edge steps of the set seen
RECURSIVE Within(_, _)
Within(seen, k) == IF k = 0 THEN seen ELSE Within(Expanded(seen), k - 1)

RECURSIVE GCD(_, _)
GCD(a, b) == IF b = 0 THEN a ELSE GCD(b, a % b)

NaN == [num |-> 0, den |-> 0]

IsNaN(r) == r.den = 0

Rat(n, d) == IF d = 0 THEN NaN
             ELSE LET g == GCD(n, d) IN [num |-> n \div g, den |-> d \div g]

RAdd(a, b) == IF IsNaN(a) \/ IsNaN(b) THEN NaN
              ELSE Rat(a.num * b.den + b.num * a.den, a.den * b.den)

\* a / b; b is never zero where the code divides: a sum of exponentials with
\* exp(0) among them, the number of heads
RDiv(a, b) == IF IsNaN(a) \/ IsNaN(b) \/ b.num = 0 THEN NaN
              ELSE Rat(a.num * b.den, a.den * b.num)

RLeq(a, b) == ~IsNaN(a) /\ ~IsNaN(b) /\ a.num * b.den <= b.num * a.den

RECURSIVE Pow2(_)
Pow2(k) == IF k = 0 THEN 1 ELSE 2 * Pow2(k - 1)

\* Math.exp(s - maxScore) for scores in units of ln 2: 2^(s - maxScore)
Exp(s, maxScore) ==
  IF IsNaN(s) \/ IsNaN(maxScore) THEN NaN
  ELSE LET d == (s.num \div s.den) - (maxScore.num \div maxScore.den)
       IN IF d >= 0 THEN Rat(Pow2(d), 1) ELSE Rat(1, Pow2(0 - d))

\* Math.max(...scores): NaN when a score is NaN, -Infinity for no score (and
\* then nothing is computed from it)
RECURSIVE MathMax(_)
MathMax(scores) ==
  IF scores = <<>> THEN NaN
  ELSE IF Len(scores) = 1 THEN Head(scores)
  ELSE LET rest == MathMax(Tail(scores))
       IN IF IsNaN(Head(scores)) \/ IsNaN(rest) THEN NaN
          ELSE IF RLeq(rest, Head(scores)) THEN Head(scores) ELSE rest

\* reduce((a, b) => a + b, 0)
RECURSIVE RSum(_)
RSum(xs) == IF xs = <<>> THEN Rat(0, 1) ELSE RAdd(Head(xs), RSum(Tail(xs)))

\* the exponentials, left as they are
SoftmaxUnnormalised(scores) ==
  LET maxScore == MathMax(scores)
  IN [j \in 1..Len(scores) |-> Exp(scores[j], maxScore)]

\* HyperGraphAttention.#softmax(scores)
Softmax(scores) ==
  LET maxScore == MathMax(scores)
      expScores == [j \in 1..Len(scores) |-> Exp(scores[j], maxScore)]
      sum == RSum(expScores)
  IN [j \in 1..Len(scores) |-> RDiv(expScores[j], sum)]

\* #dotProduct(q, k) / Math.sqrt(dimension) of a head for a key: what the
\* head's weights give, NaN for a key vector shorter than the dimension
\* (W[i][j] * undefined)
HeadScore(head, keyEmb, short) ==
  IF keyEmb \in short THEN NaN ELSE Rat(headScores[head][keyEmb], 1)

\* HyperGraphAttention.computeAttention(queryEmb, keyEmbs): the softmax of
\* each head, averaged over the heads
AttentionWeights(keyEmbs, short) ==
  LET allScores == [head \in 1..NumHeads |->
                      Softmax([j \in 1..Len(keyEmbs) |->
                                 HeadScore(head, keyEmbs[j], short)])]
  IN [i \in 1..Len(keyEmbs) |->
        RDiv(RSum([head \in 1..NumHeads |-> allScores[head][i]]),
             Rat(NumHeads, 1))]

ComputeAttention(keyEmbs, short) ==
  /\ reply' = [call |-> "computeAttention", args |-> <<keyEmbs, short>>,
               error |-> NoError, value |-> AttentionWeights(keyEmbs, short)]
  /\ UNCHANGED <<hgNodeKeys, hgNodes, hgEdgeKeys, hyperEdges, hyperdKeys,
                 hyperdSystems, initialized, edgeAdds>>
  /\ UNCHANGED graphVars
  /\ UNCHANGED callVars

\* the key lists of a call: none, one, two in either order
KeyLists ==
  {<<>>} \cup {<<k>> : k \in AttentionKeys}
         \cup {<<k, l>> : k, l \in AttentionKeys}

RangeOf(f) == {f[i] : i \in DOMAIN f}

\* an attention with any weights, called with any key list
InitAttention ==
  /\ NewGraph(0, 0) /\ NewHyperd(0)
  /\ headScores \in HeadScoreTables
  /\ invocations = [i \in InvocationIds |-> NoInvocation]
  /\ search = NoSearch

\* one call on each attention
NextAttention ==
  /\ reply.call = "new"
  /\ \E keyEmbs \in KeyLists : \E short \in SUBSET RangeOf(keyEmbs) :
       ComputeAttention(keyEmbs, short)

SpecAttention == InitAttention /\ [][NextAttention]_vars

Attended == reply.call = "computeAttention"

\* one weight per neighbour, each in [0, 1], summing to 1, a lone neighbour
\* weighing 1, and in neighbour order: the neighbour every head scores
\* higher weighs more
WeightsAreADistribution ==
  LET keyEmbs == reply.args[1]
      weights == reply.value
  IN /\ Len(weights) = Len(keyEmbs)
     /\ \A i \in 1..Len(weights) :
          RLeq(Rat(0, 1), weights[i]) /\ RLeq(weights[i], Rat(1, 1))
     /\ RSum(weights) = Rat(1, 1)
     /\ Len(keyEmbs) = 1 => weights = <<Rat(1, 1)>>
     /\ \A i, j \in 1..Len(weights) :
          (\A head \in 1..NumHeads :
             headScores[head][keyEmbs[i]] > headScores[head][keyEmbs[j]])
            => ~RLeq(weights[i], weights[j])

\* C22 (as stated): computeAttention returns a distribution over the
\* neighbours for every neighbour count
C22_AlwaysADistribution == Attended => WeightsAreADistribution

\* C22: computeAttention returns, for at least one neighbour and vectors of
\* the attention's dimension, one weight per neighbour in neighbour order,
\* each in [0, 1] and summing to 1; a lone neighbour weighs 1
C22_DistributionOverNeighbours ==
  (Attended /\ reply.args[1] # <<>> /\ reply.args[2] = {})
    => WeightsAreADistribution

C22_Witness ==
  /\ Attended /\ Len(reply.args[1]) = 2 /\ reply.args[2] = {}
  /\ reply.args[1][1] # reply.args[1][2]
  /\ reply.value[1] = Rat(5, 12)

(***************************************************************************)
(* Hyperd.executeWorkflow.  A call builds its own ComputationalGraph and   *)
(* awaits graph.execute(); it runs without interruption from one await of  *)
(* a domain call to the next.  The call is split once more, at the call of *)
(* graph.execute(), so that the graph as built is a state.                  *)
(***************************************************************************)
WorkflowNames ==
  {"full_enterprise_analysis", "supply_demand_optimization",
   "customer_material_learning", "quarterly_report"}

\* the cases of the switch
KnownWorkflowAny(workflowName) == TRUE

KnownWorkflow(workflowName) ==
  workflowName \in {"full_enterprise_analysis", "supply_demand_optimization",
                    "customer_material_learning"}

UnknownWorkflow(workflowName) == <<"Unknown workflow", workflowName>>

\* the params of the calls: { materialId, customerId, learnerId }
WorkflowParams == [materialId |-> "m1", customerId |-> "c1", learnerId |-> "l1"]

\* the addNode calls of the workflow, in order; every inputs list is []
WorkflowNodes(workflowName, params) ==
  CASE workflowName = "full_enterprise_analysis" ->
         << [id |-> "n1", system |-> "scm", operation |-> <<"getERPSCMAnalysis">>],
            [id |-> "n2", system |-> "crm", operation |-> <<"getCRMAnalytics">>],
            [id |-> "n3", system |-> "mrp", operation |-> <<"getMRPAnalytics">>],
            [id |-> "n4", system |-> "lms", operation |-> <<"getLMSAnalytics">>] >>
    [] workflowName = "supply_demand_optimization" ->
         << [id |-> "n1", system |-> "mrp",
             operation |-> <<"optimizeInventory", ":", params.materialId>>],
            [id |-> "n2", system |-> "crm",
             operation |-> <<"predictChurn", ":", params.customerId>>] >>
    [] workflowName = "customer_material_learning" ->
         << [id |-> "n1", system |-> "crm",
             operation |-> <<"getCustomer", ":", params.customerId>>],
            [id |-> "n2", system |-> "mrp",
             operation |-> <<"getMaterial", ":", params.materialId>>],
            [id |-> "n3", system |-> "lms",
             operation |-> <<"getLearner", ":", params.learnerId>>] >>
    [] OTHER -> <<>>

\* the object a workflow returns, from the Map results of graph.execute();
\* the timestamp is the reading of the clock
WorkflowResult(workflowName, res) ==
  CASE workflowName = "full_enterprise_analysis" ->
         [workflow |-> workflowName, scm |-> MapGet(res, "n1"),
          crm |-> MapGet(res, "n2"), mrp |-> MapGet(res, "n3"),
          lms |-> MapGet(res, "n4"), timestamp |-> <<"now">>]
    [] workflowName = "supply_demand_optimization" ->
         [workflow |-> workflowName, inventory |-> MapGet(res, "n1"),
          customer |-> MapGet(res, "n2")]
    [] workflowName = "customer_material_learning" ->
         [workflow |-> workflowName, customer |-> MapGet(res, "n1"),
          material |-> MapGet(res, "n2"), learner |-> MapGet(res, "n3")]
    [] OTHER -> Undefined

\* the methods of the domain services the workflows call
WorkflowMethods(name) ==
  CASE name = "scm" -> {<<"getERPSCMAnalysis">>}
    [] name = "crm" -> {<<"getCRMAnalytics">>, <<"predictChurn">>, <<"getCustomer">>}
    [] name = "mrp" -> {<<"getMRPAnalytics">>, <<"optimizeInventory">>, <<"getMaterial">>}
    [] name = "lms" -> {<<"getLMSAnalytics">>, <<"getLearner">>}

\* what a domain service returns for a call
ServiceValueOf(call) == <<"val", call.system, call.method, call.args>>

\* the graph some call that has ended left behind, when there is one
LeftoverGraph ==
  IF \E j \in InvocationIds : invocations[j].pc \in {"thrown", "returned"}
  THEN LET j == CHOOSE j \in InvocationIds :
                  invocations[j].pc \in {"thrown", "returned"}
       IN [invocations[j].graph EXCEPT
             !.systems = [name \in DOMAIN hyperdSystems |-> hyperdSystems[name].methods],
             !.executionOrder = <<>>]
  ELSE [systems |-> [name \in DOMAIN hyperdSystems |-> hyperdSystems[name].methods],
        nodeKeys |-> <<>>, nodes |-> <<>>, executionOrder |-> <<>>]

\* new ComputationalGraph() with the systems of the Hyperd registered, in
\* the order of Object.entries
RegisteredGraph ==
  [systems |-> [name \in DOMAIN hyperdSystems |-> hyperdSystems[name].methods],
   nodeKeys |-> <<>>, nodes |-> <<>>, executionOrder |-> <<>>]

\* graph.addNode(id, system, operation, []) for each node of the workflow
RECURSIVE GraphAddNodes(_, _)
GraphAddNodes(g, added) ==
  IF added = <<>> THEN g
  ELSE LET n == Head(added)
           next == [g EXCEPT
                      !.nodes = MapSet(g.nodes, n.id, NewNode(n.system, n.operation, <<>>)),
                      !.nodeKeys = IF n.id \in DOMAIN g.nodes THEN g.nodeKeys
                                   ELSE Append(g.nodeKeys, n.id)]
       IN GraphAddNodes(next, Tail(added))

\* the domain call an awaiting execute() is suspended on: the last it made
PendingCallOfAny(i) ==
  LET j == IF \E k \in InvocationIds \ {i} : invocations[k].pc = "await"
           THEN CHOOSE k \in InvocationIds \ {i} : invocations[k].pc = "await"
           ELSE i
  IN invocations[j].dispatched[Len(invocations[j].dispatched)]

PendingCall(i) == invocations[i].dispatched[Len(invocations[i].dispatched)]

\* the for..of loop of execute() from position pos of the array up to the
\* next await, a throw or the return
RECURSIVE Advance(_)
Advance(frame) ==
  IF frame.pos > Len(frame.order)
  THEN [frame EXCEPT !.pc = "returned",
                     !.outcome = [error |-> NoError,
                                  value |-> WorkflowResult(frame.workflow, frame.results)]]
  ELSE LET id == frame.order[frame.pos]
           g == frame.graph
       IN IF id \notin DOMAIN g.nodes
          THEN Advance([frame EXCEPT !.pos = @ + 1])
          ELSE LET node == g.nodes[id]
                   op == ParseOperation(node.operation)
                   failed(msg) ==
                     [frame EXCEPT
                        !.pc = "thrown",
                        !.graph.nodes[id] = SetResult(SetStatus(node, "failed"),
                                                      ErrorObject(msg)),
                        !.outcome = [error |-> msg, value |-> <<>>]]
               IN IF node.system \notin DOMAIN g.systems
                  THEN failed(SystemNotRegistered(node.system))
                  ELSE IF op.method \notin g.systems[node.system]
                  THEN failed(MethodNotFound(op.method))
                  ELSE [frame EXCEPT
                          !.pc = "await",
                          !.graph.nodes[id] = SetStatus(node, "running"),
                          !.dispatched = Append(@,
                             [node |-> id, system |-> node.system,
                              method |-> op.method, args |-> op.args])]

\* executeWorkflow(workflowName, params) up to the call of graph.execute(),
\* or to the throw of the default case
WfCall(i, workflowName, params) ==
  /\ IndexReady
  /\ invocations[i].pc = "none"
  /\ LET frame == [NoInvocation EXCEPT
                     !.workflow = workflowName,
                     !.others = [j \in InvocationIds \ {i} |-> invocations[j].pc]]
     IN invocations' = [invocations EXCEPT ![i] =
          IF KnownWorkflow(workflowName)
          THEN [frame EXCEPT
                  !.pc = "built",
                  !.graph = GraphAddNodes(RegisteredGraph,
                                          WorkflowNodes(workflowName, params))]
          ELSE [frame EXCEPT
                  !.pc = "thrown",
                  !.graph = RegisteredGraph,
                  !.outcome = [error |-> UnknownWorkflow(workflowName),
                               value |-> <<>>]]]
  /\ UNCHANGED <<hgNodeKeys, hgNodes, hgEdgeKeys, hyperEdges, hyperdKeys,
                 hyperdSystems, initialized, edgeAdds, reply>>
  /\ UNCHANGED graphVars
  /\ UNCHANGED <<headScores, search>>

\* graph.execute() up to its first await
WfExecute(i) ==
  /\ invocations[i].pc = "built"
  /\ LET frame == invocations[i]
         order == BuildOrder(frame.graph.nodeKeys, frame.graph.nodes).order
     IN invocations' = [invocations EXCEPT ![i] =
          Advance([frame EXCEPT !.graph.executionOrder = order,
                                !.order = order, !.pos = 1])]
  /\ UNCHANGED <<hgNodeKeys, hgNodes, hgEdgeKeys, hyperEdges, hyperdKeys,
                 hyperdSystems, initialized, edgeAdds, reply>>
  /\ UNCHANGED graphVars
  /\ UNCHANGED <<headScores, search>>

\* the awaited domain call resolves: setResult, results.set, and on to the
\* next await
WfResolve(i) ==
  /\ invocations[i].pc = "await"
  /\ LET frame == invocations[i]
         id == frame.order[frame.pos]
         result == ServiceValueOf(PendingCall(i))
     IN invocations' = [invocations EXCEPT ![i] =
          Advance([frame EXCEPT
                     !.graph.nodes[id] = SetResult(@, result),
                     !.results = MapSet(@, id, result),
                     !.pos = @ + 1])]
  /\ UNCHANGED <<hgNodeKeys, hgNodes, hgEdgeKeys, hyperEdges, hyperdKeys,
                 hyperdSystems, initialized, edgeAdds, reply>>
  /\ UNCHANGED graphVars
  /\ UNCHANGED <<headScores, search>>

\* the awaited domain call rejects: the catch clause, and the error leaves
\* execute() and executeWorkflow
WfReject(i) ==
  /\ invocations[i].pc = "await"
  /\ LET frame == invocations[i]
         id == frame.order[frame.pos]
     IN invocations' = [invocations EXCEPT ![i] =
          [frame EXCEPT
             !.pc = "thrown",
             !.graph.nodes[id] = SetResult(SetStatus(@, "failed"),
                                           ErrorObject(OperationFailure)),
             !.outcome = [error |-> OperationFailure, value |-> <<>>]]]
  /\ UNCHANGED <<hgNodeKeys, hgNodes, hgEdgeKeys, hyperEdges, hyperdKeys,
                 hyperdSystems, initialized, edgeAdds, reply>>
  /\ UNCHANGED graphVars
  /\ UNCHANGED <<headScores, search>>

\* a domain service with the methods the workflows call, and one without
WorkflowInstance(name) == [methods |-> WorkflowMethods(name), exports |-> FullExports(name)]

BareInstance(name) == [methods |-> {}, exports |-> FullExports(name)]

\* the systems registered before the first workflow: none, two, all four
WorkflowRegistries ==
  { <<>>, <<"crm", "mrp">>, <<"scm", "crm", "mrp", "lms">> }

InitWorkflows ==
  /\ NewGraph(0, 0)
  /\ \E keys \in WorkflowRegistries :
       /\ hyperdKeys = keys
       /\ hyperdSystems = [name \in Range(keys) |-> WorkflowInstance(name)]
  /\ hgNodeKeys = <<>> /\ hgNodes = <<>> /\ hgEdgeKeys = <<>> /\ hyperEdges = <<>>
  /\ initialized = FALSE
  /\ edgeAdds = 0
  /\ reply = [call |-> "new", args |-> <<>>, error |-> NoError, value |-> <<>>]
  /\ NoCalls

NextWorkflows ==
  \/ \E instance \in {WorkflowInstance("crm"), BareInstance("crm")} :
       HyperdRegisterSystem("crm", instance)
  \/ InitializeHyperGraph
  \/ \E i \in InvocationIds : \E workflowName \in WorkflowNames :
       WfCall(i, workflowName, WorkflowParams)
  \/ \E i \in InvocationIds : WfExecute(i)
  \/ \E i \in InvocationIds : WfResolve(i)
  \/ \E i \in InvocationIds : WfReject(i)

SpecWorkflows == InitWorkflows /\ [][NextWorkflows]_vars

WorkflowTypeOK == \A i \in InvocationIds : invocations[i].pc \in {"none", "built", "await", "thrown", "returned"}

\* the registry of the Hyperd and the nodes and hyper-edges of its index
RegistryAndIndex ==
  <<hyperdKeys, hyperdSystems, hgNodeKeys, hgNodes, hgEdgeKeys, hyperEdges>>

Called(i) == invocations[i].pc # "none"

C23_UnknownFailsState ==
  \A i \in InvocationIds :
    (Called(i) /\ invocations[i].workflow = "quarterly_report")
      => /\ invocations[i].pc = "thrown"
         /\ invocations[i].outcome.error = UnknownWorkflow("quarterly_report")
         /\ invocations[i].dispatched = <<>>

C23_UnknownFailsStep ==
  \A i \in InvocationIds :
    (~Called(i) /\ invocations'[i].workflow = "quarterly_report")
      => UNCHANGED RegistryAndIndex

\* C23: executeWorkflow with a name that is no catalogued workflow fails with
\* the unknown-workflow error, dispatches no operation on any service, and
\* leaves the registry and the index as they were
C23_UnknownWorkflowFails == [](C23_UnknownFailsState) /\ [][C23_UnknownFailsStep]_vars

C23_Witness ==
  /\ \E i \in InvocationIds :
       /\ invocations[i].workflow = "quarterly_report"
       /\ invocations[i].pc = "thrown"
       /\ DOMAIN invocations[i].graph.systems = {"crm", "mrp"}
  /\ hgNodeKeys # <<>>

\* the call i was made after a call that a rejecting domain call had failed
AfterRejection(i) ==
  /\ Called(i)
  /\ \E j \in InvocationIds \ {i} :
       /\ invocations[i].others[j] = "thrown"
       /\ invocations[j].outcome.error = OperationFailure

C24_StartsPending ==
  \A i \in InvocationIds :
    (AfterRejection(i) /\ invocations[i].pc = "built")
      => /\ invocations[i].graph.nodeKeys # <<>>
         /\ \A id \in DOMAIN invocations[i].graph.nodes :
              invocations[i].graph.nodes[id].status = "pending"

C24_RejectionStep ==
  \A i \in InvocationIds :
    (/\ invocations[i].pc = "await"
     /\ invocations'[i].pc = "thrown"
     /\ invocations'[i].outcome.error = OperationFailure)
      => UNCHANGED RegistryAndIndex

\* C24: a workflow that fails because a domain call rejects leaves the
\* registered systems and the nodes and hyper-edges of the index as they
\* were, and the next executeWorkflow starts from a graph whose nodes are
\* all pending
C24_FailureLeavesNoTrace == [](C24_StartsPending) /\ [][C24_RejectionStep]_vars

\* ... and that next workflow has completed
C24_Witness ==
  \E i \in InvocationIds :
    /\ AfterRejection(i)
    /\ invocations[i].pc = "returned"
    /\ invocations[i].workflow = "supply_demand_optimization"
    /\ invocations[i].outcome.value.customer # Undefined
    /\ \E j \in InvocationIds \ {i} :
         /\ invocations[j].workflow = "full_enterprise_analysis"
         /\ Len(invocations[j].dispatched) = 3
    /\ hgNodeKeys # <<>>

\* the domain call of a node of a workflow
CallOf(n) ==
  LET op == ParseOperation(n.operation)
  IN [node |-> n.id, system |-> n.system, method |-> op.method, args |-> op.args]

\* what graph.execute() returns to a workflow that runs alone and meets no
\* failure
AloneResults(workflowName) ==
  LET added == WorkflowNodes(workflowName, WorkflowParams)
  IN [id \in {added[k].id : k \in 1..Len(added)} |->
        ServiceValueOf(CallOf(added[CHOOSE k \in 1..Len(added) : added[k].id = id]))]

\* C28: executeWorkflow calls that interleave at their awaits do not
\* interfere: each dispatches the calls of its own workflow, in order, and
\* returns what it would return alone
C28_InvocationsIndependent ==
  \A i \in InvocationIds :
    LET frame == invocations[i]
        added == WorkflowNodes(frame.workflow, WorkflowParams)
    IN Called(i) =>
         /\ Len(frame.dispatched) <= Len(added)
         /\ \A k \in 1..Len(frame.dispatched) : frame.dispatched[k] = CallOf(added[k])
         /\ frame.pc = "returned" =>
              /\ Len(frame.dispatched) = Len(added)
              /\ frame.outcome.value = WorkflowResult(frame.workflow,
                                                      AloneResults(frame.workflow))
         /\ \A k \in 1..Len(added) :
              LET status == frame.graph.nodes[added[k].id].status
              IN IF k < frame.pos \/ frame.pc = "returned" THEN status = "completed"
                 ELSE IF k > frame.pos THEN status = "pending"
                 ELSE TRUE

C28_Witness ==
  \E i \in InvocationIds : \E j \in InvocationIds \ {i} :
    /\ invocations[i].pc = "returned"
    /\ invocations[i].others[j] = "await"
    /\ invocations[i].workflow = "customer_material_learning"
    /\ invocations[j].workflow = "supply_demand_optimization"
    /\ invocations[j].pc = "await"
    /\ invocations[j].pos = 2

\* the nodes and the hyper-edges of the index
IndexContents == <<hgNodeKeys, hgNodes, hgEdgeKeys, hyperEdges>>

C25_QueriesFreezeIndexStep ==
  (reply.call = "crossDomainQuery" \/ reply'.call = "crossDomainQuery")
    => UNCHANGED IndexContents

\* C25: the index is written in a build phase that precedes every query: no
\* query writes a node or a hyper-edge, and no operation that follows a
\* query does
C25_QueriesFreezeIndex == [][C25_QueriesFreezeIndexStep]_vars

C27_ExecutesCurrentGraph ==
  (Returned("execute") /\ outcome.error = NoError) =>
    /\ DispatchedIds = DOMAIN nodes
    /\ Len(dispatched) = Cardinality(DOMAIN nodes)
    /\ DOMAIN outcome.value = DOMAIN nodes
    /\ \A k \in 1..Len(dispatched) :
         InputsOf(nodes, dispatched[k].node) \cap DOMAIN nodes
           \subseteq { dispatched[j].node : j \in 1..(k - 1) }

(***************************************************************************)
(* findCrossDomainPaths, one turn of its while loop at a time.  The call   *)
(* is synchronous: nothing else runs between its turns.                    *)
(***************************************************************************)
\* maxHops when the caller passes NaN (parseInt of a hops parameter that is
\* no number): every comparison with it is false
NotANumber == 0 - 1

\* "path.length >= maxHops"
HopsReached(path, maxHops) == maxHops # NotANumber /\ Len(path) >= maxHops

\* one turn of "while (queue.length > 0)" on a non-empty queue
SearchTurn(idx, st, targetNodeId, maxHops) ==
  LET path == Head(st.queue)
      rest == [st EXCEPT !.queue = Tail(@)]
  IN IF path[Len(path)] = targetNodeId
     THEN [rest EXCEPT !.paths = Append(@, path)]
     ELSE IF HopsReached(path, maxHops)
     THEN rest
     ELSE PushPaths(rest, path, NeighborsOf(idx.edgeKeys, idx.edges, path))

Searching == search.pc = "searching"

\* findCrossDomainPaths(sourceNodeId, targetNodeId, maxHops) is called
SearchStart(sourceNodeId, targetNodeId, maxHops) ==
  /\ IndexReady
  /\ ~Searching
  /\ search' = [pc |-> "searching",
                args |-> <<sourceNodeId, targetNodeId, maxHops>>,
                queue |-> << <<sourceNodeId>> >>, visited |-> {}, paths |-> <<>>,
                queued |-> << <<sourceNodeId>> >>]
  /\ UNCHANGED indexVars
  /\ UNCHANGED graphVars
  /\ UNCHANGED <<headScores, invocations>>

\* a turn of the loop; queued keeps every path ever pushed on the queue
SearchStep ==
  /\ Searching
  /\ search.queue # <<>>
  /\ LET st == SearchTurn(Index, [queue |-> search.queue, visited |-> search.visited,
                                  paths |-> search.paths],
                          search.args[2], search.args[3])
     IN search' = [search EXCEPT
                     !.queue = st.queue, !.visited = st.visited, !.paths = st.paths,
                     !.queued = @ \o SubSeq(st.queue, Len(search.queue), Len(st.queue))]
  /\ UNCHANGED indexVars
  /\ UNCHANGED graphVars
  /\ UNCHANGED <<headScores, invocations>>

\* the queue is empty: "return paths.map(...)"
SearchReturn ==
  /\ Searching
  /\ search.queue = <<>>
  /\ search' = [search EXCEPT !.pc = "returned"]
  /\ reply' = [call |-> "findCrossDomainPaths", args |-> search.args,
               error |-> NoError,
               value |-> [i \in 1..Len(search.paths) |->
                            [path |-> search.paths[i],
                             length |-> Len(search.paths[i]) - 1,
                             systems |-> SystemsOf(Index, search.paths[i])]]]
  /\ UNCHANGED <<hgNodeKeys, hgNodes, hgEdgeKeys, hyperEdges, hyperdKeys,
                 hyperdSystems, initialized, edgeAdds>>
  /\ UNCHANGED graphVars
  /\ UNCHANGED <<headScores, invocations>>

\* the hyper-edges of the searched index: over two nodes, and the clique
\* over all three
SearchNodeLists ==
  { <<NodeId("scm", "s1"), NodeId("crm", "c1")>>,
    <<NodeId("crm", "c1"), NodeId("mrp", "m1")>>,
    <<NodeId("mrp", "m1"), NodeId("scm", "s1")>>,
    <<NodeId("scm", "s1"), NodeId("crm", "c1"), NodeId("mrp", "m1")>> }

SearchEnds == { NodeId("scm", "s1"), NodeId("mrp", "m1") }

SearchHops == 0..MaxHops \cup {NotANumber}

\* an index with the nodes of IndexKeys, added in this order, and no edge;
\* its edges are added first, and then one search is made
InitSearch ==
  /\ NewGraph(0, 0)
  /\ LET idx == AddNodeTo(AddNodeTo(AddNodeTo(
                   [nodeKeys |-> <<>>, nodes |-> <<>>],
                   NodeId("scm", "s1"), "scm", "entity", EmbeddingOf(NodeId("scm", "s1"))),
                   NodeId("crm", "c1"), "crm", "entity", EmbeddingOf(NodeId("crm", "c1"))),
                   NodeId("mrp", "m1"), "mrp", "entity", EmbeddingOf(NodeId("mrp", "m1")))
     IN hgNodeKeys = idx.nodeKeys /\ hgNodes = idx.nodes
  /\ hgEdgeKeys = <<>> /\ hyperEdges = <<>>
  /\ hyperdKeys = <<>> /\ hyperdSystems = <<>>
  /\ initialized = FALSE
  /\ edgeAdds = MaxEdgeAdds
  /\ reply = [call |-> "new", args |-> <<>>, error |-> NoError, value |-> <<>>]
  /\ NoCalls

NextSearch ==
  \/ /\ search.pc = "none"
     /\ \E edgeId \in EdgeIds, nodeIds \in SearchNodeLists :
          HgAddHyperEdge(edgeId, nodeIds, EdgeType(edgeId), EdgeWeight(edgeId), <<>>)
  \/ /\ search.pc = "none"
     /\ \E sourceNodeId \in SearchEnds, targetNodeId \in SearchEnds,
           maxHops \in SearchHops :
          SearchStart(sourceNodeId, targetNodeId, maxHops)
  \/ SearchStep
  \/ SearchReturn

\* the loop goes on while it can, and the call returns when the loop ends
SpecSearch ==
  InitSearch /\ [][NextSearch]_vars /\ WF_vars(SearchStep) /\ WF_vars(SearchReturn)

\* the result of the turns is the result of the loop
SearchAgrees ==
  (search.pc = "returned" /\ search.args[3] # NotANumber)
    => search.paths = SearchPaths(Index, [queue |-> << <<search.args[1]>> >>,
                                         visited |-> {}, paths |-> <<>>],
                                  search.args[2], search.args[3])

\* every path ever queued visits no node twice, is no longer than the nodes
\* of the index allow, and was queued once
C29_QueuedPathsBounded ==
  /\ \A k \in 1..Len(search.queued) :
       /\ Cardinality(Range(search.queued[k])) = Len(search.queued[k])
       /\ Len(search.queued[k]) <= Cardinality(DOMAIN hgNodes)
  /\ \A k, l \in 1..Len(search.queued) :
       search.queued[k] = search.queued[l] => k = l

\* C29: findCrossDomainPaths terminates for every index, source, target and
\* maxHops, cycles and cliques included: every queued path is a
\* repetition-free path of bounded length, queued at most once
C29_SearchTerminates ==
  /\ [](C29_QueuedPathsBounded)
  /\ Searching ~> (search.pc = "returned")

C29_Witness ==
  /\ search.pc = "returned"
  /\ search.args[3] = NotANumber
  /\ Len(search.paths) = 2
  /\ \E e \in DOMAIN hyperEdges : Len(hyperEdges[e].nodes) = 3
  /\ Len(search.queued) = 4

\* every node id of the edge config is the key of a stored node
Resolvable(config) == \A i \in 1..Len(config.nodes) : config.nodes[i] \in DOMAIN hgNodes

\* C30: createCrossDomainEdges returns normally; an edge config with a node
\* id the index lacks is skipped and its error logged, and every config whose
\* node ids all exist is stored, wherever it stands among the configs
C30_MissingNodesTolerated ==
  reply.call = "createCrossDomainEdges" =>
    /\ reply.error = NoError
    /\ \A k \in 1..Len(EdgeConfigs) :
         LET config == EdgeConfigs[k]
         IN IF Resolvable(config)
            THEN /\ config.id \in DOMAIN hyperEdges
                 /\ hyperEdges[config.id].nodes = config.nodes
                 /\ \A l \in 1..Len(reply.value) : reply.value[l][1] # config.id
            ELSE /\ config.id \notin DOMAIN hyperEdges
                 /\ \E l \in 1..Len(reply.value) :
                      /\ reply.value[l][1] = config.id
                      /\ reply.value[l][2][1] = NodeNotFound(<<>>)[1]

\* the last config is stored after the two before it were skipped
C30_Witness ==
  /\ reply.call = "createCrossDomainEdges"
  /\ ~Resolvable(EdgeConfigs[1])
  /\ ~Resolvable(EdgeConfigs[2])
  /\ EdgeConfigs[3].id \in DOMAIN hyperEdges
  /\ Len(reply.value) = 2


====
